---- MODULE Spec2Model ----
(***************************************************************************)
(* Model of the mcpchecker evaluation runner: evalRunner.RunWithProgress,  *)
(* collectTaskConfigs and runTask (pkg/eval/runner.go) driving the four    *)
(* phases of taskRunner (pkg/task/run.go); of the extension client         *)
(* (pkg/extension/client/client.go); and of the extension manager as the   *)
(* extension steps use it (pkg/steps/extension.go).                        *)
(***************************************************************************)
EXTENDS Integers, Sequences, FiniteSets, TLC

(***************************************************************************)
(* Bounds of the model.                                                    *)
(***************************************************************************)
\* number of task configs collectTaskConfigs returns (discovery order 1..NTasks)
NTasks == 2
\* largest parallelism the caller asks for
MaxP == 2
\* number of steps in each phase of the task of the step-level specification
MaxSteps == 2
\* number of goroutines that call Execute on the extension client
NCallers == 2
\* number of extension aliases the eval configuration can register
NAliases == 3
\* number of task workers that ask the extension manager for a client
NGetters == 2
\* longest task name and longest task pattern, in characters
MaxName == 2
\* the longest field of a steps reference, in characters
MaxField == 5
\* the longest prompt, in segments of text and references
MaxSegments == 2

Tasks == 1..NTasks

\* the parallelism values a caller may pass, the non-positive ones included
ParallelismInputs == (0 - 1)..MaxP

VARIABLES
    parallelism,  \* evalRunner.parallelism, as normalised by the constructor
    cfg,          \* the task configs: the step lists of each task
    rpc,          \* position of RunWithProgress
    tpc,          \* position of runTask for each task
    stepIdx,      \* index of the next step of the phase a task is in
    out,          \* the PhaseOutput the phase in progress is building
    result,       \* the *EvalResult of each task
    results,      \* the slice RunWithProgress returns (task positions)
    runErr,       \* the joined error RunWithProgress returns
    events,       \* the progress events handed to the callback, in order
    phaseLog,     \* per task: the phase of every phase entry and step run
    proxy,        \* per task: state of the mcpproxy server manager
    taskCount,    \* len(taskConfigs): tasks 1..taskCount were selected
    stepOutputs,  \* per task: the stepOutputs map of the phase in progress
    setupOutputs, \* per task: taskRunner.setupOutputs
    stepInputs,   \* per task: the StepInput.StepOutputs handed to every step
    mcpManager,   \* the shared MCP-client manager of RunWithProgress
    extManager,   \* the shared extension manager of RunWithProgress
    extUp,        \* an extension subprocess started during the run is running
    pc,           \* extension client: position of every goroutine that uses it
    cs,           \* extension client: position of a goroutine inside client.call
    callErr,      \* extension client: what client.call returned to a goroutine
    proc,         \* extension client: the subprocess behind client.cmd
    conn,         \* extension client: client.conn, nil or a connection
    closes,       \* extension client: how often a connection was closed
    mux,          \* extension client: the goroutines that hold client.mux
    inflight,     \* extension client: calls whose request is sent, not awaited
    resp,         \* extension client: calls whose response has arrived
    ctx,          \* extension client: the context a goroutine passed in
    timer,        \* extension client: the 5-second timer of shutdownCtx
    elapsed,      \* extension client: seconds since shutdownCtx was made
    waitDone,     \* extension client: the waitDone channel of Shutdown
    acked,        \* extension client: the shutdown RPC returned nil
    startErr,     \* extension client: the error Start returned
    shutdownErr,  \* extension client: the error Shutdown returned
    registered,   \* extension manager: the aliases registered
    inst,         \* extension manager: the state of the instance of an alias
    starts,       \* extension manager: subprocesses started for an alias
    gpc,          \* extension manager: position of every task worker
    gs,           \* extension manager: position of a worker inside Get
    gal,          \* extension manager: the alias a worker asks for
    ret,          \* extension manager: what Get returned to a worker last
    sd,           \* extension manager: position of ShutdownAll
    sdTodo,       \* extension manager: aliases ShutdownAll has yet to visit
    sdRes,        \* extension manager: what Shutdown returned for an alias
    sdRet,        \* extension manager: the errors ShutdownAll returned
    taskPattern,  \* task selection: the pattern RunWithProgress was given
    labelSelector,\* task selection: the label selector of the task set
    found,        \* task selection: the task files read so far
    taskConfigs,  \* task selection: what collectTaskConfigs collected
    rmu,          \* random resolver: the goroutine that holds RandomResolver.mu
    values,       \* random resolver: RandomResolver.values
    rpos,         \* random resolver: position of a goroutine inside Resolve
    rfield,       \* random resolver: the fieldName a goroutine passed
    rret,         \* random resolver: what Resolve returned to a goroutine last
    returned,     \* random resolver: every value Resolve has returned
    fieldName,    \* step-output resolver: the field of a steps reference
    refOutputs,   \* step-output resolver: StepOutputResolver.outputs
    resolved,     \* step-output resolver: what Resolve returned
    prompt,       \* task runner: the prompt of the task, in segments
    handed,       \* task runner: the prompt RunAgent gave to the agent
    stepCfg,      \* step config: a StepConfig value
    data,         \* step config: what MarshalJSON made of it
    decoded,      \* step config: what UnmarshalJSON made of data
    environ,      \* http step: the environment of the process
    hpos,         \* http step: position of an execution inside Execute
    henv,         \* http step: input.Env of an execution
    hbefore,      \* http step: the environment when Execute was entered
    hseen,        \* http step: the environment when its request was made
    hafter        \* http step: the environment when Execute returned

runnerVars == <<parallelism, cfg, rpc, tpc, stepIdx, out, result, results,
                runErr, events, phaseLog, proxy, taskCount, stepOutputs,
                setupOutputs, stepInputs, mcpManager, extManager, extUp>>

clientVars == <<pc, cs, callErr, proc, conn, closes, mux, inflight, resp, ctx,
                timer, elapsed, waitDone, acked, startErr, shutdownErr>>

managerVars == <<registered, inst, starts, gpc, gs, gal, ret, sd,
                 sdTodo, sdRes, sdRet>>

selectVars == <<taskPattern, labelSelector, found, taskConfigs>>

resolverVars == <<rmu, values, rpos, rfield, rret, returned>>

\* the variables of the helpers of the steps
templateVars == <<fieldName, refOutputs, resolved, prompt, handed>>

configVars == <<stepCfg, data, decoded>>

envVars == <<environ, hpos, henv, hbefore, hseen, hafter>>

stepVars == <<resolverVars, templateVars, configVars, envVars>>

\* what the actions of the runner and of the extension client leave alone
otherVars == <<managerVars, selectVars, stepVars>>

vars == <<runnerVars, clientVars, managerVars, selectVars, stepVars>>

(***************************************************************************)
(* Data.                                                                   *)
(***************************************************************************)
\* a *task.PhaseOutput that is nil
NilPhase == [nil |-> TRUE, Steps |-> <<>>, Success |-> FALSE, Error |-> ""]

\* out := &PhaseOutput{Steps: make(...), Success: true}
NewPhaseOutput == [nil |-> FALSE, Steps |-> <<>>, Success |-> TRUE, Error |-> ""]

\* what one StepRunner.Execute call can do: succeed, report Success=false
\* without an error (a validation failure), or return an execution error
StepOutcomes == {"ok", "soft", "err"}

\* a map[string]string or a map[string]map[string]string is the set of its
\* <<key, value>> pairs; a nil map and an empty map are both {}
EmptyMap == {}

\* m[k] = v
MapPut(m, k, v) == {p \in m : p[1] # k} \cup {<<k, v>>}

MapHas(m, k) == \E p \in m : p[1] = k

\* m[k] of a key that is present
MapGet(m, k) == (CHOOSE p \in m : p[1] = k)[2]

\* what one Execute call returns: an outcome and the Outputs of the StepOutput
StepResult(o, outputs) == [o |-> o, Outputs |-> outputs]

\* steps that produce no outputs
PlainResults == {StepResult(o, EmptyMap) : o \in StepOutcomes}

\* a step of a task: the Type its StepOutput carries and the results its
\* Execute may return
StepConfig(type, rs) == [type |-> type, results |-> rs]

\* the *StepOutput a step of a type returns for a result
StepOutputOf(type, r) ==
    [Type |-> type, Success |-> (r.o = "ok"),
     Error |-> IF r.o = "ok" THEN "" ELSE r.o,
     Outputs |-> r.Outputs]

\* a TaskConfig with one step in each of its setup, verify and cleanup lists
OneStepTaskConfig ==
    [setup |-> <<StepConfig("script", PlainResults)>>,
     verify |-> <<StepConfig("llmJudge", PlainResults)>>,
     cleanup |-> <<StepConfig("script", PlainResults)>>]

\* a nil error; an error is the chain of its wrapped messages, outermost first
NoError == <<>>

\* result := &EvalResult{TaskName: ..., TaskPath: ..., Difficulty: ...}
NewEvalResult(t) ==
    [TaskName |-> t,
     TaskPassed |-> FALSE,
     TaskError |-> NoError,
     AgentExecutionError |-> FALSE,
     AllAssertionsPassed |-> FALSE,
     TaskOutput |-> "",
     SetupOutput |-> NilPhase,
     AgentOutput |-> NilPhase,
     VerifyOutput |-> NilPhase,
     CleanupOutput |-> NilPhase]

Event(type, t) == [type |-> type, task |-> t]

\* task 0 stands for "no task" in the run-level events
NoTask == 0

\* the results of the setup steps of the multi-step task: success with no,
\* one or another output set, a validation failure that carries outputs, an
\* error
RichResults ==
    {StepResult("ok", EmptyMap),
     StepResult("ok", {<<"k", "a">>}),
     StepResult("ok", {<<"k", "b">>}),
     StepResult("soft", {<<"k", "b">>}),
     StepResult("err", EmptyMap)}

\* the results of the verify steps of the multi-step task
VerifyResults ==
    {StepResult("ok", {<<"k", "a">>}),
     StepResult("soft", {<<"k", "b">>}),
     StepResult("err", EmptyMap)}

\* the results of the cleanup steps of the multi-step task
CleanupResults ==
    {StepResult("ok", EmptyMap),
     StepResult("ok", {<<"k", "c">>}),
     StepResult("soft", {<<"k", "b">>}),
     StepResult("err", EmptyMap)}

\* the Type of the StepOutput of step i of each phase of the multi-step task:
\* a type that repeats, two types that alternate, and a step without a type
SetupStepType(i) == IF i <= 2 THEN "script" ELSE "http"

VerifyStepType(i) == IF i % 2 = 1 THEN "http" ELSE ""

CleanupStepType(i) == IF i % 2 = 1 THEN "script" ELSE "http"

\* a TaskConfig with MaxSteps steps in each of its lists
MultiStepTaskConfig ==
    [setup |-> [i \in 1..MaxSteps |-> StepConfig(SetupStepType(i), RichResults)],
     verify |-> [i \in 1..MaxSteps |-> StepConfig(VerifyStepType(i), VerifyResults)],
     cleanup |-> [i \in 1..MaxSteps |-> StepConfig(CleanupStepType(i), CleanupResults)]]

(***************************************************************************)
(* The constructor.                                                        *)
(***************************************************************************)
\* NewRunnerWithParallelism: a parallelism <= 0 becomes 1
NewRunnerWithParallelism(p) == IF p <= 0 THEN 1 ELSE p

(***************************************************************************)
(* The extension client (pkg/extension/client/client.go): its data.        *)
(***************************************************************************)
\* the goroutine that calls Start and later Shutdown on the client
Owner == 0

\* the goroutines that call Execute
Callers == 1..NCallers

Threads == {Owner} \cup Callers

\* c.cmd before cmd.Start(): no process
NoProcess == [state |-> "none", status |-> "none"]

\* how a running subprocess can exit by itself
ExitStatuses == {"zero", "nonzero"}

\* c.cmd.Process.Kill(): a running process is killed; a process that has
\* exited is left as it is
Kill(p) ==
    IF p.state = "running" THEN [state |-> "exited", status |-> "killed"] ELSE p

\* the error of c.cmd.Process.Kill(): os.ErrProcessDone once the process
\* was waited for, else nil
KillError(p) ==
    IF p.state = "reaped" THEN "os: process already finished" ELSE ""

\* the error of c.cmd.Wait() for a process that exited: nil for exit
\* status 0, else an *exec.ExitError
WaitError(p) ==
    CASE p.status = "zero" -> ""
      [] p.status = "nonzero" -> "exit status 1"
      [] p.status = "killed" -> "signal: killed"

\* errors.Join: the non-nil errors in order; nil if there is none
Join(errs) == SelectSeq(errs, LAMBDA e : e # "")

\* the waitDone channel: nothing sent yet
EmptyChan == [ready |-> FALSE, err |-> ""]

\* a client returned by New, and the goroutines that will use it
InitClient ==
    /\ pc = [th \in Threads |-> IF th = Owner THEN "new" ELSE "idle"]
    /\ cs = [th \in Threads |-> "none"]
    /\ callErr = [th \in Threads |-> ""]
    /\ proc = NoProcess
    /\ conn = "nil"
    /\ closes = 0
    /\ mux = {}
    /\ inflight = {}
    /\ resp = {}
    /\ ctx = [th \in Threads |-> "live"]
    /\ timer = "off"
    /\ elapsed = 0
    /\ waitDone = EmptyChan
    /\ acked = FALSE
    /\ startErr = NoError
    /\ shutdownErr = NoError

\* a manager RunWithProgress has not created: its state and how often it
\* was closed or shut down
NoManager == [state |-> "none", closes |-> 0]

\* the aliases of the extensions of the eval configuration
Aliases == 1..NAliases

\* the task workers that parse and execute extension steps
Getters == 1..NGetters

\* no alias
NoAlias == 0

\* what a worker holds before its first Get
NoInstance == [alias |-> NoAlias, serial |-> 0, err |-> ""]

\* an extension manager nobody uses: nothing registered, nothing started
InitManagerIdle ==
    /\ inst = [a \in Aliases |-> "unstarted"]
    /\ starts = [a \in Aliases |-> 0]
    /\ gpc = [g \in Getters |-> "idle"]
    /\ gs = [g \in Getters |-> "none"]
    /\ gal = [g \in Getters |-> NoAlias]
    /\ ret = [g \in Getters |-> NoInstance]
    /\ sd = "idle"
    /\ sdTodo = {}
    /\ sdRes = [a \in Aliases |-> "none"]
    /\ sdRet = {}

\* a task file: the metadata collectTaskConfigs looks at
TaskFile(name, labels) == [name |-> name, labels |-> labels]

\* no task file was read yet
InitSelectIdle ==
    /\ found = <<>>
    /\ taskConfigs = <<>>

\* Resolve returned nothing yet
NoValue == <<>>

\* NewRandomResolver: an empty cache, and no goroutine inside Resolve
InitResolver ==
    /\ rmu = 0
    /\ values = EmptyMap
    /\ rpos = [c \in Callers |-> "idle"]
    /\ rfield = [c \in Callers |-> ""]
    /\ rret = [c \in Callers |-> NoValue]
    /\ returned = {}

\* Resolve was not called: the pair (value, error) it returns is not there
NotResolved == [done |-> FALSE, val |-> "", err |-> ""]

\* RunAgent was not called: the agent was given no prompt
NotHanded == [done |-> FALSE, prompt |-> <<>>, err |-> ""]

\* no reference is being resolved
InitTemplateIdle ==
    /\ fieldName = <<>>
    /\ refOutputs = EmptyMap
    /\ resolved = NotResolved
    /\ prompt = <<>>
    /\ handed = NotHanded

\* a StepConfig: the id and the type-specific payload, a map from keys to
\* raw JSON values
NewStepConfig(id, config) == [ID |-> id, Config |-> config]

\* MarshalJSON was not called
NoData == [done |-> FALSE, obj |-> EmptyMap]

\* UnmarshalJSON was not called
NotDecoded == [done |-> FALSE, err |-> "", cfg |-> NewStepConfig("", EmptyMap)]

\* no StepConfig is being converted
InitConfigIdle ==
    /\ stepCfg = NewStepConfig("", EmptyMap)
    /\ data = NoData
    /\ decoded = NotDecoded

\* no http step is being executed
InitEnvIdle ==
    /\ environ = EmptyMap
    /\ hpos = [c \in Callers |-> "idle"]
    /\ henv = [c \in Callers |-> EmptyMap]
    /\ hbefore = [c \in Callers |-> EmptyMap]
    /\ hseen = [c \in Callers |-> EmptyMap]
    /\ hafter = [c \in Callers |-> EmptyMap]

\* the helpers of the steps are not looked at
InitStepsIdle ==
    InitResolver /\ InitTemplateIdle /\ InitConfigIdle /\ InitEnvIdle

\* the extension manager and the task selection are not looked at
InitIdle ==
    /\ registered = {}
    /\ InitManagerIdle
    /\ taskPattern = <<>>
    /\ labelSelector = EmptyMap
    /\ InitSelectIdle
    /\ InitStepsIdle

\* the state of a runner before RunWithProgress, but for its inputs
InitRunner ==
    /\ mcpManager = NoManager
    /\ extManager = NoManager
    /\ extUp = FALSE
    /\ rpc = "start"
    /\ tpc = [t \in Tasks |-> "idle"]
    /\ stepIdx = [t \in Tasks |-> 1]
    /\ out = [t \in Tasks |-> NilPhase]
    /\ result = [t \in Tasks |-> NewEvalResult(t)]
    /\ results = <<>>
    /\ runErr = <<>>
    /\ events = <<>>
    /\ phaseLog = [t \in Tasks |-> <<>>]
    /\ proxy = [t \in Tasks |-> "none"]
    /\ stepOutputs = [t \in Tasks |-> EmptyMap]
    /\ setupOutputs = [t \in Tasks |-> EmptyMap]
    /\ stepInputs = [t \in Tasks |-> <<>>]

\* a run of NTasks one-step tasks under any parallelism
Init ==
    /\ parallelism \in {NewRunnerWithParallelism(p) : p \in ParallelismInputs}
    /\ cfg = [t \in Tasks |-> OneStepTaskConfig]
    /\ taskCount = NTasks
    /\ InitRunner
    /\ InitClient
    /\ InitIdle

\* a run that selected one task, which has MaxSteps steps in every phase
InitPhase ==
    /\ parallelism = NewRunnerWithParallelism(1)
    /\ cfg = [t \in Tasks |-> MultiStepTaskConfig]
    /\ taskCount = 1
    /\ InitRunner
    /\ InitClient
    /\ InitIdle

\* an extension client on its own: the runner is not started
InitExtension ==
    /\ parallelism = NewRunnerWithParallelism(1)
    /\ cfg = [t \in Tasks |-> OneStepTaskConfig]
    /\ taskCount = NTasks
    /\ InitRunner
    /\ InitClient
    /\ InitIdle

(***************************************************************************)
(* Helpers shared by the actions.                                          *)
(***************************************************************************)
Emit(evs) == events' = events \o evs

\* a mutant of StepApply: the Success of the last step is the Success of the
\* phase
StepApplyLastWins(po, res, o) ==
    [po EXCEPT !.Steps = Append(@, res),
               !.Success = (o = "ok"),
               !.Error = IF o = "err" THEN "err" ELSE @]

\* the loop body of Setup, Verify and Cleanup for one step that did o:
\* out.Steps = append(out.Steps, res); an execution error sets Success=false
\* and Error; a step with Success=false sets Success=false
StepApply(po, res, o) ==
    [po EXCEPT !.Steps = Append(@, res),
               !.Success = IF o = "ok" THEN @ ELSE FALSE,
               !.Error = IF o = "err" THEN "err" ELSE @]

\* a mutant of ReturnsError: the loop goes on after an execution error
ReturnsErrorNever(o) == FALSE

\* if err != nil { ...; return out, fmt.Errorf(...) }
ReturnsError(o) == o = "err"

\* a mutant of Accumulate: the outputs of every step are stored
AccumulateAlways(so, res) == MapPut(so, res.Type, res.Outputs)

\* the end of the loop body: the outputs of a step that succeeded with a
\* non-empty output set and a type name replace the entry of its type
Accumulate(so, res) ==
    IF res.Success /\ res.Outputs # EmptyMap /\ res.Type # ""
    THEN MapPut(so, res.Type, res.Outputs)
    ELSE so

\* a mutant of PhaseSeed: every phase starts from the outputs of Setup
PhaseSeedAlways(t, ph) == setupOutputs[t]

\* the stepOutputs map a phase function starts with: a new map, which
\* Cleanup fills with the entries of r.setupOutputs
PhaseSeed(t, ph) == IF ph = "Cleanup" THEN setupOutputs[t] ELSE EmptyMap

\* the stepOutputs map of the phase a task is in
CurrentStepOutputs(t, ph) ==
    IF out[t].nil THEN PhaseSeed(t, ph) ELSE stepOutputs[t]

\* s.Execute(ctx, &steps.StepInput{..., StepOutputs: stepOutputs, ...})
HandInput(t, ph, so) ==
    stepInputs' = [stepInputs EXCEPT ![t] =
                      Append(@, [phase |-> ph, StepOutputs |-> so])]

\* the PhaseOutput of the phase a task is in: created when the phase function
\* is entered
CurrentOut(t) == IF out[t].nil THEN NewPhaseOutput ELSE out[t]

\* the phase function of ph is entered (if it was not yet) and runs n steps
LogPhase(t, ph, n) ==
    phaseLog' = [phaseLog EXCEPT ![t] =
                    @ \o (IF out[t].nil THEN <<ph>> ELSE <<>>)
                      \o [i \in 1..n |-> ph]]

\* the phase function returns: its locals are gone
LeavePhase(t) ==
    /\ out' = [out EXCEPT ![t] = NilPhase]
    /\ stepIdx' = [stepIdx EXCEPT ![t] = 1]
    /\ stepOutputs' = [stepOutputs EXCEPT ![t] = EmptyMap]

\* the PhaseOutput RunAgent returns
AgentPhaseOutput(o) ==
    IF o = "ok"
    THEN [nil |-> FALSE,
          Steps |-> <<[Type |-> "agent", Success |-> TRUE, Error |-> "",
                       Outputs |-> {<<"output", "agent output">>}]>>,
          Success |-> TRUE, Error |-> ""]
    ELSE [nil |-> FALSE,
          Steps |-> <<[Type |-> "agent", Success |-> FALSE,
                       Error |-> "failed to run agent: " \o o,
                       Outputs |-> {<<"output", o>>}]>>,
          Success |-> FALSE, Error |-> "failed to run agent: " \o o]

\* if agentOutput != nil && len(agentOutput.Steps) > 0 { if out, ok :=
\* agentOutput.Steps[0].Outputs["output"]; ok { result.TaskOutput = out } }
TaskOutputOf(po, old) ==
    IF ~po.nil /\ Len(po.Steps) > 0 /\ MapHas(po.Steps[1].Outputs, "output")
    THEN MapGet(po.Steps[1].Outputs, "output")
    ELSE old

(***************************************************************************)
(* RunWithProgress, up to the task loop.                                   *)
(***************************************************************************)
\* the steps before the loop that can make RunWithProgress return an error
ConfigErrors ==
    {"mcp config", "mcp manager", "agent spec", "agent runner", "llm judge",
     "extension", "task configs"}

EmitEvalStart ==
    /\ rpc = "start"
    /\ Emit(<<Event("EvalStart", NoTask)>>)
    /\ rpc' = "config"
    /\ UNCHANGED <<otherVars, clientVars, mcpManager, extManager, extUp,
                   parallelism, cfg, taskCount, stepOutputs, setupOutputs,
                   stepInputs, tpc, stepIdx, out, result, results,
                   runErr, phaseLog, proxy>>

\* a manager that was created and is in use
Opened == [state |-> "open", closes |-> 0]

\* the managers that exist when step e before the loop fails: mcpManager
\* once mcpclient.NewManager returned, the extension manager once
\* client.NewManager returned
ManagersAt(e) ==
    [mcp |-> IF e \in {"mcp config", "mcp manager"} THEN NoManager ELSE Opened,
     ext |-> IF e \in {"extension", "task configs"} THEN Opened ELSE NoManager]

\* a mutant of RunDeferred: the deferred call is not made
RunDeferredNever(m) == m

\* defer func() { _ = mcpManager.Close(ctx) }() and defer
\* manager.ShutdownAll(ctx), run when RunWithProgress returns: a manager
\* that was created is closed
RunDeferred(m) ==
    IF m.state = "open"
    THEN [state |-> "closed", closes |-> m.closes + 1]
    ELSE m

LoadConfig ==
    /\ rpc = "config"
    /\ \/ /\ rpc' = "loop"
          /\ mcpManager' = Opened
          /\ extManager' = Opened
          /\ UNCHANGED runErr
       \/ /\ \E e \in ConfigErrors :
                /\ runErr' = <<<<e>>>>
                /\ mcpManager' = RunDeferred(ManagersAt(e).mcp)
                /\ extManager' = RunDeferred(ManagersAt(e).ext)
          /\ rpc' = "returned"
    /\ UNCHANGED <<otherVars, clientVars, extUp,
                   parallelism, cfg, taskCount, stepOutputs, setupOutputs,
                   stepInputs, tpc, stepIdx, out, result, results,
                   events, phaseLog, proxy>>

(***************************************************************************)
(* The task loop: for _, tc := range taskConfigs { runTask(...) }.         *)
(***************************************************************************)
\* a mutant of RunLoopGuard: tasks are launched without waiting
RunLoopGuardNoWait(t) == \A j \in 1..(t - 1) : tpc[j] # "idle"

\* iteration t of the loop begins once the calls of the earlier iterations
\* have returned: runTask is called synchronously
RunLoopGuard(t) == \A j \in 1..(t - 1) : tpc[j] = "returned"

\* a mutant of RunTaskError: a failed task makes runTask return its error
RunTaskErrorOnFailure(t) == result[t].TaskError

\* the error runTask returns: nil on every return path
RunTaskError(t) == NoError

\* a mutant of AppendResult: the newest result is put first
PrependResult(rs, t) == <<t>> \o rs

\* results = append(results, result)
AppendResult(rs, t) == Append(rs, t)

\* the part of runTask before setupTaskResources
StartTask(t) ==
    /\ rpc = "loop"
    /\ tpc[t] = "idle"
    /\ t <= taskCount
    /\ RunLoopGuard(t)
    /\ result' = [result EXCEPT ![t] = NewEvalResult(t)]
    /\ Emit(<<Event("TaskStart", t), Event("TaskSetup", t)>>)
    /\ tpc' = [tpc EXCEPT ![t] = "resources"]
    /\ UNCHANGED <<otherVars, clientVars, mcpManager, extManager, extUp,
                   parallelism, cfg, taskCount, stepOutputs, setupOutputs,
                   stepInputs, rpc, stepIdx, out, results, runErr,
                   phaseLog, proxy>>

\* runTask has returned (result, err) to the loop
TaskReturn(t) ==
    /\ tpc[t] = "return"
    /\ IF RunTaskError(t) # NoError
       THEN /\ runErr' = Append(runErr, RunTaskError(t))
            /\ UNCHANGED results
       ELSE /\ results' = AppendResult(results, t)
            /\ UNCHANGED runErr
    /\ tpc' = [tpc EXCEPT ![t] = "returned"]
    /\ UNCHANGED <<otherVars, clientVars, mcpManager, extManager, extUp,
                   parallelism, cfg, taskCount, stepOutputs, setupOutputs,
                   stepInputs, rpc, stepIdx, out, result, events,
                   phaseLog, proxy>>

\* a mutant of LoopDone: the loop is left once every task was started
LoopDoneAllStarted == \A t \in 1..taskCount : tpc[t] # "idle"

\* the range loop is over: every runTask call has returned
LoopDone == \A t \in 1..taskCount : tpc[t] = "returned"

\* what is left running of the extensions once ShutdownAll has returned:
\* it shut down every started instance, and Shutdown returns with the
\* subprocess reaped
AfterShutdownAll(m, up) == IF m.state = "closed" THEN FALSE ELSE up

\* a mutant of CompletionEvents: the callback is not called after the loop
CompletionEventsNone == <<>>

\* r.progressCallback(ProgressEvent{Type: EventEvalComplete, ...}) after the
\* loop over the tasks
CompletionEvents == <<Event("EvalComplete", NoTask)>>

\* the EvalComplete event, return results, runErr, and the deferred calls
EmitEvalComplete ==
    /\ rpc = "loop"
    /\ LoopDone
    /\ Emit(CompletionEvents)
    /\ rpc' = "returned"
    /\ mcpManager' = RunDeferred(mcpManager)
    /\ extManager' = RunDeferred(extManager)
    /\ extUp' = AfterShutdownAll(RunDeferred(extManager), extUp)
    /\ UNCHANGED <<otherVars, clientVars,
                   parallelism, cfg, taskCount, stepOutputs, setupOutputs,
                   stepInputs, tpc, stepIdx, out, result, results,
                   runErr, phaseLog, proxy>>

(***************************************************************************)
(* runTask: its control flow after setupTaskResources.                     *)
(***************************************************************************)
\* a mutant of RunTaskSequence: cleanup() is called where it should be deferred
RunTaskSequenceCleanupFirst == <<"cleanup", "execute", "assert">>

\* a mutant of RunTaskSequence: the cleanup closure is never deferred
RunTaskSequenceNoCleanup == <<"execute", "assert">>

\* what runTask does once setupTaskResources succeeded: executeTaskSteps, the
\* assertions and the completion event, and on return the deferred cleanup
RunTaskSequence == <<"execute", "assert", "cleanup">>

\* the position at which a part of runTask begins
Enter(part) == IF part = "execute" THEN "agent" ELSE part

\* the position of runTask after one of its parts
After(part) ==
    LET i == CHOOSE k \in 1..Len(RunTaskSequence) : RunTaskSequence[k] = part
    IN IF i = Len(RunTaskSequence) THEN "return"
       ELSE Enter(RunTaskSequence[i + 1])

\* the position of runTask after setupTaskResources succeeded
AfterSetup ==
    IF RunTaskSequence = <<>> THEN "return" ELSE Enter(RunTaskSequence[1])

(***************************************************************************)
(* runTask: setupTaskResources.                                            *)
(***************************************************************************)
\* what setupTaskResources can meet before it calls Setup
ResourceOutcomes == {"ok", "task runner", "proxy manager", "proxy start"}

\* a mutant of TerminalEventOnSetupFailure
TerminalEventCompleteOnSetupFailure == "TaskComplete"

\* the event runTask emits when setupTaskResources returned an error
TerminalEventOnSetupFailure == "TaskError"

\* the err != nil branch of runTask after setupTaskResources
SetupFailed(t, res, err) ==
    /\ result' = [res EXCEPT ![t].TaskPassed = FALSE, ![t].TaskError = err]
    /\ Emit(<<Event(TerminalEventOnSetupFailure, t)>>)

\* a mutant of ResourceError: the error is lost
ResourceErrorNone(o) == NoError

\* the error setupTaskResources returns: fmt.Errorf("failed to create task
\* runner for task '%s': %w", ...) when NewTaskRunner rejected the steps,
\* the prompt or the requirements of the task, and the like for the proxy
ResourceError(o) == <<"failed to create " \o o>>

\* NewTaskRunner parses the steps of the task: the parser of an extension
\* step calls manager.Get, which may start the subprocess of an extension
ExtensionsAfterParse(up) == {up, TRUE}

\* NewTaskRunner, NewServerManager and manager.Start, then the call of Setup
SetupTaskResources(t) ==
    /\ tpc[t] = "resources"
    /\ \E o \in ResourceOutcomes :
         IF o = "ok"
         THEN /\ proxy' = [proxy EXCEPT ![t] = "started"]
              /\ tpc' = [tpc EXCEPT ![t] = "setup"]
              /\ UNCHANGED <<result, events>>
         ELSE /\ proxy' = [proxy EXCEPT ![t] =
                              IF o = "proxy start" THEN "created" ELSE @]
              /\ SetupFailed(t, result, ResourceError(o))
              /\ tpc' = [tpc EXCEPT ![t] = "return"]
    /\ extUp' \in ExtensionsAfterParse(extUp)
    /\ UNCHANGED <<otherVars, clientVars, mcpManager, extManager,
                   parallelism, cfg, taskCount, stepOutputs, setupOutputs,
                   stepInputs, rpc, stepIdx, out, results, runErr,
                   phaseLog>>

\* a mutant of AfterSetupError: the error of Setup is ignored
AfterSetupErrorIgnored == "agent"

\* a mutant of AfterSetupError: the cleanup closure also runs after a failed
\* Setup
AfterSetupErrorCleanup == "cleanup"

\* where runTask goes when Setup returned an error: it returns the result
AfterSetupError == "return"

\* a mutant of SetupOutputOnError: the output is stored after the error check
SetupOutputDroppedOnError(po) == NilPhase

\* result.SetupOutput = setupOutput precedes the check of Setup's error
SetupOutputOnError(po) == po

\* a mutant of ProxyAfterSetupError: manager.Close() is forgotten
ProxyLeftOpenAfterSetupError == "started"

\* setupTaskResources closes the proxy server manager when Setup failed
ProxyAfterSetupError == "closed"

\* one iteration of the loop of taskRunner.Setup
SetupStep(t) ==
    /\ tpc[t] = "setup"
    /\ stepIdx[t] <= Len(cfg[t].setup)
    /\ \E r \in cfg[t].setup[stepIdx[t]].results :
         LET so == CurrentStepOutputs(t, "Setup")
             res == StepOutputOf(cfg[t].setup[stepIdx[t]].type, r)
             po == StepApply(CurrentOut(t), res, r.o)
         IN
         /\ LogPhase(t, "Setup", 1)
         /\ HandInput(t, "Setup", so)
         /\ IF ReturnsError(r.o)
            THEN \* Setup returns (out, err): result.SetupOutput = setupOutput,
                 \* manager.Close(), and runTask takes its error branch
                 /\ proxy' = [proxy EXCEPT ![t] = ProxyAfterSetupError]
                 /\ SetupFailed(t,
                       [result EXCEPT ![t].SetupOutput = SetupOutputOnError(po)],
                       <<"failed to setup task", "setup step failed", po.Error>>)
                 /\ LeavePhase(t)
                 /\ tpc' = [tpc EXCEPT ![t] = AfterSetupError]
            ELSE /\ out' = [out EXCEPT ![t] = po]
                 /\ stepIdx' = [stepIdx EXCEPT ![t] = @ + 1]
                 /\ stepOutputs' = [stepOutputs EXCEPT ![t] = Accumulate(so, res)]
                 /\ UNCHANGED <<result, events, proxy, tpc>>
    /\ UNCHANGED <<otherVars, clientVars, mcpManager, extManager, extUp,
                   parallelism, cfg, taskCount, setupOutputs, rpc, results,
                   runErr>>

\* Setup returns (out, nil): result.SetupOutput = setupOutput, and the
\* cleanup closure is deferred
SetupReturn(t) ==
    /\ tpc[t] = "setup"
    /\ stepIdx[t] > Len(cfg[t].setup)
    /\ setupOutputs' = [setupOutputs EXCEPT ![t] = CurrentStepOutputs(t, "Setup")]
    /\ result' = [result EXCEPT ![t].SetupOutput = CurrentOut(t)]
    /\ LogPhase(t, "Setup", 0)
    /\ LeavePhase(t)
    /\ tpc' = [tpc EXCEPT ![t] = AfterSetup]
    /\ UNCHANGED <<otherVars, clientVars, mcpManager, extManager, extUp,
                   parallelism, cfg, taskCount, stepInputs, rpc, results,
                   runErr, events, proxy>>

(***************************************************************************)
(* runTask: executeTaskSteps.                                              *)
(***************************************************************************)
AgentOutcomes == {"ok", "err"}

\* a mutant of AfterAgentError: Verify is called although the agent failed
AfterAgentErrorVerify == "verify"

\* the return in the err != nil branch after RunAgent: executeTaskSteps is
\* over
AfterAgentError == After("execute")

\* executeTaskSteps from its start to the call of Verify: the TaskRunning
\* event, taskRunner.RunAgent, and the branch on its error
RunAgent(t) ==
    /\ tpc[t] = "agent"
    /\ \E o \in AgentOutcomes :
         LET po == AgentPhaseOutput(o)
             r1 == [result EXCEPT ![t].AgentOutput = po] IN
         IF o = "err"
         THEN /\ result' = [r1 EXCEPT
                              ![t].TaskPassed = FALSE,
                              ![t].TaskError = <<"failed to run agent", o>>,
                              ![t].AgentExecutionError = TRUE,
                              ![t].TaskOutput = TaskOutputOf(po, @)]
              /\ Emit(<<Event("TaskRunning", t)>>)
              /\ tpc' = [tpc EXCEPT ![t] = AfterAgentError]
         ELSE /\ result' = [r1 EXCEPT ![t].TaskOutput = TaskOutputOf(po, @)]
              /\ Emit(<<Event("TaskRunning", t), Event("TaskVerifying", t)>>)
              /\ tpc' = [tpc EXCEPT ![t] = "verify"]
    /\ phaseLog' = [phaseLog EXCEPT ![t] = Append(@, "RunAgent")]
    /\ UNCHANGED <<otherVars, clientVars, mcpManager, extManager, extUp,
                   parallelism, cfg, taskCount, stepOutputs, setupOutputs,
                   stepInputs, rpc, stepIdx, out, results, runErr, proxy>>

\* a mutant of VerifyVerdict: the Success of the phase output is not looked at
VerifyVerdictIgnoringSteps(r, t, po, err) ==
    IF err # NoError
    THEN [r EXCEPT ![t].VerifyOutput = po, ![t].TaskPassed = FALSE,
                   ![t].TaskError = <<"verification failed">> \o err]
    ELSE [r EXCEPT ![t].VerifyOutput = po, ![t].TaskPassed = TRUE]

\* the if/else if/else of executeTaskSteps after Verify returned (po, err)
VerifyVerdict(r, t, po, err) ==
    IF err # NoError
    THEN [r EXCEPT ![t].VerifyOutput = po, ![t].TaskPassed = FALSE,
                   ![t].TaskError = <<"verification failed">> \o err]
    ELSE IF ~po.Success
         THEN [r EXCEPT ![t].VerifyOutput = po, ![t].TaskPassed = FALSE,
                        ![t].TaskError =
                            <<"one or more verification steps failed">>]
         ELSE [r EXCEPT ![t].VerifyOutput = po, ![t].TaskPassed = TRUE]

\* one iteration of the loop of taskRunner.Verify
VerifyStep(t) ==
    /\ tpc[t] = "verify"
    /\ stepIdx[t] <= Len(cfg[t].verify)
    /\ \E r \in cfg[t].verify[stepIdx[t]].results :
         LET so == CurrentStepOutputs(t, "Verify")
             res == StepOutputOf(cfg[t].verify[stepIdx[t]].type, r)
             po == StepApply(CurrentOut(t), res, r.o)
         IN
         /\ LogPhase(t, "Verify", 1)
         /\ HandInput(t, "Verify", so)
         /\ IF ReturnsError(r.o)
            THEN /\ result' = VerifyVerdict(result, t, po,
                                            <<"verify step failed", po.Error>>)
                 /\ LeavePhase(t)
                 /\ tpc' = [tpc EXCEPT ![t] = After("execute")]
            ELSE /\ out' = [out EXCEPT ![t] = po]
                 /\ stepIdx' = [stepIdx EXCEPT ![t] = @ + 1]
                 /\ stepOutputs' = [stepOutputs EXCEPT ![t] = Accumulate(so, res)]
                 /\ UNCHANGED <<result, tpc>>
    /\ UNCHANGED <<otherVars, clientVars, mcpManager, extManager, extUp,
                   parallelism, cfg, taskCount, setupOutputs, rpc, results,
                   runErr, events, proxy>>

\* Verify returns (out, nil)
VerifyReturn(t) ==
    /\ tpc[t] = "verify"
    /\ stepIdx[t] > Len(cfg[t].verify)
    /\ result' = VerifyVerdict(result, t, CurrentOut(t), NoError)
    /\ LogPhase(t, "Verify", 0)
    /\ LeavePhase(t)
    /\ tpc' = [tpc EXCEPT ![t] = After("execute")]
    /\ UNCHANGED <<otherVars, clientVars, mcpManager, extManager, extUp,
                   parallelism, cfg, taskCount, setupOutputs, stepInputs, rpc,
                   results, runErr, events, proxy>>

(***************************************************************************)
(* runTask: assertions, completion and the deferred cleanup.               *)
(***************************************************************************)
\* the TaskAssertions event, evaluateTaskAssertions (no assertions are
\* configured: tc.assertions == nil) and the TaskComplete event
EvaluateAssertions(t) ==
    /\ tpc[t] = "assert"
    /\ result' = [result EXCEPT ![t].AllAssertionsPassed = TRUE]
    /\ Emit(<<Event("TaskAssertions", t), Event("TaskComplete", t)>>)
    /\ tpc' = [tpc EXCEPT ![t] = After("assert")]
    /\ UNCHANGED <<otherVars, clientVars, mcpManager, extManager, extUp,
                   parallelism, cfg, taskCount, stepOutputs, setupOutputs,
                   stepInputs, rpc, stepIdx, out, results, runErr,
                   phaseLog, proxy>>

\* a mutant of CleanupVerdict: a failed Cleanup fails the task
CleanupVerdictFailingTask(r, t, po) ==
    [r EXCEPT ![t].CleanupOutput = po,
              ![t].TaskPassed = @ /\ po.Success,
              ![t].TaskError = IF po.Success THEN @ ELSE <<"cleanup failed">>]

\* cleanupOutput, _ := taskRunner.Cleanup(ctx); result.CleanupOutput =
\* cleanupOutput: the error of Cleanup is dropped
CleanupVerdict(r, t, po) == [r EXCEPT ![t].CleanupOutput = po]

\* the end of the cleanup closure: the output is stored and manager.Close()
CleanupClosureEnd(t, po) ==
    /\ result' = CleanupVerdict(result, t, po)
    /\ proxy' = [proxy EXCEPT ![t] = "closed"]
    /\ LeavePhase(t)
    /\ tpc' = [tpc EXCEPT ![t] = After("cleanup")]

\* one iteration of the loop of taskRunner.Cleanup
CleanupStep(t) ==
    /\ tpc[t] = "cleanup"
    /\ stepIdx[t] <= Len(cfg[t].cleanup)
    /\ \E r \in cfg[t].cleanup[stepIdx[t]].results :
         LET so == CurrentStepOutputs(t, "Cleanup")
             res == StepOutputOf(cfg[t].cleanup[stepIdx[t]].type, r)
             po == StepApply(CurrentOut(t), res, r.o)
         IN
         /\ LogPhase(t, "Cleanup", 1)
         /\ HandInput(t, "Cleanup", so)
         /\ IF ReturnsError(r.o)
            THEN CleanupClosureEnd(t, po)
            ELSE /\ out' = [out EXCEPT ![t] = po]
                 /\ stepIdx' = [stepIdx EXCEPT ![t] = @ + 1]
                 /\ stepOutputs' = [stepOutputs EXCEPT ![t] = Accumulate(so, res)]
                 /\ UNCHANGED <<result, proxy, tpc>>
    /\ UNCHANGED <<otherVars, clientVars, mcpManager, extManager, extUp,
                   parallelism, cfg, taskCount, setupOutputs, rpc, results,
                   runErr, events>>

\* Cleanup returns (out, nil)
CleanupReturn(t) ==
    /\ tpc[t] = "cleanup"
    /\ stepIdx[t] > Len(cfg[t].cleanup)
    /\ CleanupClosureEnd(t, CurrentOut(t))
    /\ LogPhase(t, "Cleanup", 0)
    /\ UNCHANGED <<otherVars, clientVars, mcpManager, extManager, extUp,
                   parallelism, cfg, taskCount, setupOutputs, stepInputs, rpc,
                   results, runErr, events>>

(***************************************************************************)
(* The specification.                                                      *)
(***************************************************************************)
Next ==
    \/ EmitEvalStart
    \/ LoadConfig
    \/ \E t \in Tasks : StartTask(t)
    \/ \E t \in Tasks : SetupTaskResources(t)
    \/ \E t \in Tasks : SetupStep(t)
    \/ \E t \in Tasks : SetupReturn(t)
    \/ \E t \in Tasks : RunAgent(t)
    \/ \E t \in Tasks : VerifyStep(t)
    \/ \E t \in Tasks : VerifyReturn(t)
    \/ \E t \in Tasks : EvaluateAssertions(t)
    \/ \E t \in Tasks : CleanupStep(t)
    \/ \E t \in Tasks : CleanupReturn(t)
    \/ \E t \in Tasks : TaskReturn(t)
    \/ EmitEvalComplete

Spec == Init /\ [][Next]_vars

\* the step-level specification: the same runner on one multi-step task
SpecPhase == InitPhase /\ [][Next]_vars

(***************************************************************************)
(* The extension client: client.call and what the subprocess and the       *)
(* contexts do meanwhile.                                                  *)
(***************************************************************************)
\* the context handed to call is done; for the shutdown RPC it is
\* shutdownCtx, done when its parent is done or its 5-second timer fired
CallCtxDone(th) ==
    \/ ctx[th] = "done"
    \/ th = Owner /\ pc[Owner] = "shutdownRPC" /\ timer = "fired"

\* a mutant of MuxFree: the mutex is not taken
MuxFreeAlways == TRUE

\* c.mux.Lock() can proceed
MuxFree == mux = {}

\* c.mux.Lock(); defer c.mux.Unlock(); call := c.conn.Call(ctx, method,
\* params): the request is sent; a nil c.conn is a nil pointer dereference
CallSend(th) ==
    /\ cs[th] = "lock"
    /\ MuxFree
    /\ IF conn = "nil"
       THEN /\ cs' = [cs EXCEPT ![th] = "panic"]
            /\ UNCHANGED <<mux, inflight>>
       ELSE /\ cs' = [cs EXCEPT ![th] = "await"]
            /\ mux' = mux \cup {th}
            /\ inflight' = inflight \cup {th}
    /\ UNCHANGED <<otherVars, runnerVars, elapsed, pc, callErr, proc, conn, closes, resp, ctx,
                   timer, waitDone, acked, startErr, shutdownErr>>

\* what call.Await(ctx, result) can return: nil once the response arrived,
\* the error of the context once it is done, a connection error once the
\* subprocess is gone
AwaitOutcomes(th) ==
    (IF th \in resp THEN {""} ELSE {})
    \cup (IF CallCtxDone(th) THEN {"context done"} ELSE {})
    \cup (IF proc.state # "running" THEN {"connection closed"} ELSE {})

\* return call.Await(ctx, result), and the deferred c.mux.Unlock()
CallAwait(th) ==
    /\ cs[th] = "await"
    /\ \E e \in AwaitOutcomes(th) : callErr' = [callErr EXCEPT ![th] = e]
    /\ cs' = [cs EXCEPT ![th] = "done"]
    /\ mux' = mux \ {th}
    /\ inflight' = inflight \ {th}
    /\ resp' = resp \ {th}
    /\ UNCHANGED <<otherVars, runnerVars, elapsed, pc, proc, conn, closes, ctx, timer, waitDone,
                   acked, startErr, shutdownErr>>

\* the subprocess answers a request it was sent
ProcRespond(th) ==
    /\ th \in inflight
    /\ th \notin resp
    /\ proc.state = "running"
    /\ resp' = resp \cup {th}
    /\ UNCHANGED <<otherVars, runnerVars, elapsed, pc, cs, callErr, proc, conn, closes, mux,
                   inflight, ctx, timer, waitDone, acked, startErr,
                   shutdownErr>>

\* the subprocess exits by itself
ProcExit ==
    /\ proc.state = "running"
    /\ \E st \in ExitStatuses : proc' = [state |-> "exited", status |-> st]
    /\ UNCHANGED <<otherVars, runnerVars, elapsed, pc, cs, callErr, conn, closes, mux, inflight,
                   resp, ctx, timer, waitDone, acked, startErr, shutdownErr>>

\* the positions of a goroutine inside a client method that was given a
\* context
InMethod(th) ==
    IF th = Owner
    THEN pc[th] \notin {"new", "startFailed", "ready", "stopped"}
    ELSE pc[th] = "exec"

\* the context a goroutine passed in is cancelled or reaches its deadline
CtxDone(th) ==
    /\ InMethod(th)
    /\ ctx[th] = "live"
    /\ ctx' = [ctx EXCEPT ![th] = "done"]
    /\ UNCHANGED <<otherVars, runnerVars, elapsed, pc, cs, callErr, proc, conn, closes, mux,
                   inflight, resp, timer, waitDone, acked, startErr,
                   shutdownErr>>

\* the timeout of shutdownCtx, in seconds
ShutdownTimeout == 5

\* the timer of context.WithTimeout(ctx, 5*time.Second) fires, 5 seconds
\* after shutdownCtx was made
TimerFire ==
    /\ timer = "running"
    /\ elapsed = ShutdownTimeout
    /\ timer' = "fired"
    /\ UNCHANGED <<otherVars, runnerVars, elapsed, pc, cs, callErr, proc, conn, closes, mux,
                   inflight, resp, ctx, waitDone, acked, startErr,
                   shutdownErr>>

\* a second passes while Shutdown is inside its shutdown RPC, blocked on
\* the mutex or awaiting the response: the timer fires when its time has
\* come, and call.Await(ctx, result) returns as soon as its context is done
Tick ==
    /\ pc[Owner] = "shutdownRPC"
    /\ cs[Owner] \in {"lock", "await"}
    /\ elapsed <= ShutdownTimeout
    /\ ~(timer = "running" /\ elapsed = ShutdownTimeout)
    /\ ~(cs[Owner] = "await" /\ CallCtxDone(Owner))
    /\ elapsed' = elapsed + 1
    /\ UNCHANGED <<otherVars, runnerVars, pc, cs, callErr, proc, conn, closes, mux,
                   inflight, resp, ctx, timer, waitDone, acked, startErr,
                   shutdownErr>>

(***************************************************************************)
(* The extension client: Start.                                            *)
(***************************************************************************)
\* what can fail before a subprocess exists: cmd.StdinPipe, cmd.StdoutPipe
\* and cmd.Start
SpawnErrors ==
    {"failed to get stdin pipe", "failed to get stdout pipe",
     "failed to start extension"}

\* a mutant of AfterStartFailure: the subprocess is left alone
AfterStartFailureNoKill(p) == p

\* _ = c.cmd.Process.Kill() before Start returns the error of Dial or of
\* initialize
AfterStartFailure(p) == Kill(p)

\* Start up to cmd.Start(): the pipes and the spawn of the subprocess
StartProcess ==
    /\ pc[Owner] = "new"
    /\ \/ /\ proc' = [state |-> "running", status |-> "none"]
          /\ pc' = [pc EXCEPT ![Owner] = "dial"]
          /\ UNCHANGED startErr
       \/ /\ \E e \in SpawnErrors : startErr' = <<e>>
          /\ pc' = [pc EXCEPT ![Owner] = "startFailed"]
          /\ UNCHANGED proc
    /\ UNCHANGED <<otherVars, runnerVars, elapsed, cs, callErr, conn, closes, mux, inflight, resp,
                   ctx, timer, waitDone, acked, shutdownErr>>

\* jsonrpc2.Dial: on success c.conn is set and initialize is called
StartDial ==
    /\ pc[Owner] = "dial"
    /\ \/ /\ conn' = "open"
          /\ pc' = [pc EXCEPT ![Owner] = "initialize"]
          /\ cs' = [cs EXCEPT ![Owner] = "lock"]
          /\ UNCHANGED <<proc, startErr>>
       \/ /\ proc' = AfterStartFailure(proc)
          /\ startErr' = <<"failed to connect to extension">>
          /\ pc' = [pc EXCEPT ![Owner] = "startFailed"]
          /\ UNCHANGED <<conn, cs>>
    /\ UNCHANGED <<otherVars, runnerVars, elapsed, callErr, closes, mux, inflight, resp, ctx,
                   timer, waitDone, acked, shutdownErr>>

\* c.manifest, err = c.initialize(ctx, params) has returned
StartReturn ==
    /\ pc[Owner] = "initialize"
    /\ cs[Owner] = "done"
    /\ cs' = [cs EXCEPT ![Owner] = "none"]
    /\ IF callErr[Owner] # ""
       THEN /\ proc' = AfterStartFailure(proc)
            /\ startErr' = <<"failed to initialize extension", callErr[Owner]>>
            /\ pc' = [pc EXCEPT ![Owner] = "startFailed"]
       ELSE /\ pc' = [pc EXCEPT ![Owner] = "ready"]
            /\ UNCHANGED <<proc, startErr>>
    /\ UNCHANGED <<otherVars, runnerVars, elapsed, callErr, conn, closes, mux, inflight, resp,
                   ctx, timer, waitDone, acked, shutdownErr>>

(***************************************************************************)
(* The extension client: Execute.                                          *)
(***************************************************************************)
\* the positions of the owner once Start has returned nil
StartedPositions ==
    {"ready", "shutdownRPC", "failClose", "failKill", "select", "exitClose",
     "ctxClose", "ctxKill", "stopped"}

\* Execute is called with a new context
ExecuteBegin(c) ==
    /\ pc[c] = "idle"
    /\ pc[Owner] \in StartedPositions
    /\ pc' = [pc EXCEPT ![c] = "exec"]
    /\ cs' = [cs EXCEPT ![c] = "lock"]
    /\ ctx' = [ctx EXCEPT ![c] = "live"]
    /\ UNCHANGED <<otherVars, runnerVars, elapsed, callErr, proc, conn, closes, mux, inflight,
                   resp, timer, waitDone, acked, startErr, shutdownErr>>

\* Execute returns what call returned; its context and its local err are
\* given up
ExecuteReturn(c) ==
    /\ pc[c] = "exec"
    /\ cs[c] = "done"
    /\ pc' = [pc EXCEPT ![c] = "idle"]
    /\ cs' = [cs EXCEPT ![c] = "none"]
    /\ ctx' = [ctx EXCEPT ![c] = "live"]
    /\ callErr' = [callErr EXCEPT ![c] = ""]
    /\ UNCHANGED <<otherVars, runnerVars, elapsed, proc, conn, closes, mux, inflight,
                   resp, timer, waitDone, acked, startErr, shutdownErr>>

(***************************************************************************)
(* The extension client: Shutdown.                                         *)
(***************************************************************************)
\* a mutant of WithTimeout: shutdownCtx is the context of the caller
WithoutTimeout == "off"

\* shutdownCtx, cancel := context.WithTimeout(ctx, 5*time.Second): a child
\* of the context of the caller with a timer of its own
WithTimeout == "running"

\* Shutdown is called: shutdownCtx gets its timer and the shutdown RPC is
\* issued
ShutdownBegin ==
    /\ pc[Owner] = "ready"
    /\ pc' = [pc EXCEPT ![Owner] = "shutdownRPC"]
    /\ cs' = [cs EXCEPT ![Owner] = "lock"]
    /\ ctx' = [ctx EXCEPT ![Owner] = "live"]
    /\ timer' = WithTimeout
    /\ elapsed' = 0
    /\ UNCHANGED <<otherVars, runnerVars, callErr, proc, conn, closes, mux, inflight,
                   resp, waitDone, acked, startErr, shutdownErr>>

\* the shutdown RPC has returned: its error branch, or the goroutine that
\* waits for the process and the select
ShutdownAfterRPC ==
    /\ pc[Owner] = "shutdownRPC"
    /\ cs[Owner] = "done"
    /\ cs' = [cs EXCEPT ![Owner] = "none"]
    /\ IF callErr[Owner] # ""
       THEN /\ pc' = [pc EXCEPT ![Owner] = "failClose"]
            /\ UNCHANGED acked
       ELSE /\ pc' = [pc EXCEPT ![Owner] = "select"]
            /\ acked' = TRUE
    /\ elapsed' = 0
    /\ UNCHANGED <<otherVars, runnerVars, callErr, proc, conn, closes, mux, inflight,
                   resp, ctx, timer, waitDone, startErr, shutdownErr>>

\* go func() { waitDone <- c.cmd.Wait() }(): the process has exited and is
\* reaped
WaitGoroutine ==
    /\ pc[Owner] \in {"select", "exitClose", "ctxClose", "ctxKill"}
    /\ ~waitDone.ready
    /\ proc.state = "exited"
    /\ proc' = [proc EXCEPT !.state = "reaped"]
    /\ waitDone' = [ready |-> TRUE, err |-> WaitError(proc)]
    /\ UNCHANGED <<otherVars, runnerVars, elapsed, pc, cs, callErr, conn, closes, mux, inflight,
                   resp, ctx, timer, acked, startErr, shutdownErr>>

\* case err := <-waitDone
SelectWaitDone ==
    /\ pc[Owner] = "select"
    /\ waitDone.ready
    /\ pc' = [pc EXCEPT ![Owner] = "exitClose"]
    /\ UNCHANGED <<otherVars, runnerVars, elapsed, cs, callErr, proc, conn, closes, mux, inflight,
                   resp, ctx, timer, waitDone, acked, startErr, shutdownErr>>

\* case <-ctx.Done()
SelectCtxDone ==
    /\ pc[Owner] = "select"
    /\ ctx[Owner] = "done"
    /\ pc' = [pc EXCEPT ![Owner] = "ctxClose"]
    /\ UNCHANGED <<otherVars, runnerVars, elapsed, cs, callErr, proc, conn, closes, mux, inflight,
                   resp, ctx, timer, waitDone, acked, startErr, shutdownErr>>

\* a mutant of GracefulReturn: the error of the context is joined in
GracefulReturnWithCtx(w) == Join(<<"context done", w.err>>)

\* case err := <-waitDone: c.closeConn(); return err
GracefulReturn(w) == Join(<<w.err>>)

\* c.closeConn() on each of the three paths of Shutdown, and on the
\* graceful path the return that follows it
CloseConn ==
    /\ pc[Owner] \in {"failClose", "exitClose", "ctxClose"}
    /\ MuxFree
    /\ conn' = "nil"
    /\ closes' = IF conn # "nil" THEN closes + 1 ELSE closes
    /\ CASE pc[Owner] = "failClose" ->
              /\ pc' = [pc EXCEPT ![Owner] = "failKill"]
              /\ UNCHANGED <<shutdownErr, timer>>
         [] pc[Owner] = "ctxClose" ->
              /\ pc' = [pc EXCEPT ![Owner] = "ctxKill"]
              /\ UNCHANGED <<shutdownErr, timer>>
         [] pc[Owner] = "exitClose" ->
              /\ shutdownErr' = GracefulReturn(waitDone)
              /\ timer' = "off"
              /\ pc' = [pc EXCEPT ![Owner] = "stopped"]
    /\ UNCHANGED <<otherVars, runnerVars, elapsed, cs, callErr, proc, mux, inflight, resp, ctx,
                   waitDone, acked, startErr>>

\* a mutant of RpcFailedReturn: the error of the RPC is dropped
RpcFailedReturnKillOnly(err, killErr) == Join(<<killErr>>)

\* return errors.Join(err, killErr)
RpcFailedReturn(err, killErr) == Join(<<err, killErr>>)

\* a mutant of KillAndWait: the killed process is not waited for
KillNoWait(p) == Kill(p)

\* c.cmd.Process.Kill() followed by c.cmd.Wait(), by Shutdown itself or by
\* its goroutine: the process is gone and reaped
KillAndWait(p) == [Kill(p) EXCEPT !.state = "reaped"]

\* the RPC failed: killErr := c.cmd.Process.Kill(); _ = c.cmd.Wait();
\* return errors.Join(err, killErr)
ShutdownKillReap ==
    /\ pc[Owner] = "failKill"
    /\ shutdownErr' = RpcFailedReturn(callErr[Owner], KillError(proc))
    /\ proc' = KillAndWait(proc)
    /\ timer' = "off"
    /\ pc' = [pc EXCEPT ![Owner] = "stopped"]
    /\ UNCHANGED <<otherVars, runnerVars, elapsed, cs, callErr, conn, closes, mux, inflight, resp,
                   ctx, waitDone, acked, startErr>>

\* a mutant of CtxDoneReturn: the error of the context is dropped
CtxDoneReturnNoCtx(ctxErr, killErr, waitErr) == Join(<<killErr, waitErr>>)

\* return errors.Join(ctx.Err(), killErr, waitErr)
CtxDoneReturn(ctxErr, killErr, waitErr) == Join(<<ctxErr, killErr, waitErr>>)

\* the context is done: killErr := c.cmd.Process.Kill(); waitErr :=
\* <-waitDone; return errors.Join(ctx.Err(), killErr, waitErr)
ShutdownKillDrain ==
    /\ pc[Owner] = "ctxKill"
    /\ LET waitErr == IF waitDone.ready THEN waitDone.err
                      ELSE WaitError(Kill(proc))
       IN shutdownErr' = CtxDoneReturn("context done", KillError(proc), waitErr)
    /\ proc' = KillAndWait(proc)
    /\ waitDone' = EmptyChan
    /\ timer' = "off"
    /\ pc' = [pc EXCEPT ![Owner] = "stopped"]
    /\ UNCHANGED <<otherVars, runnerVars, elapsed, cs, callErr, conn, closes, mux, inflight, resp,
                   ctx, acked, startErr>>

(***************************************************************************)
(* The specification of the extension client.                              *)
(***************************************************************************)
NextClient ==
    \/ StartProcess
    \/ StartDial
    \/ StartReturn
    \/ \E c \in Callers : ExecuteBegin(c)
    \/ \E c \in Callers : ExecuteReturn(c)
    \/ ShutdownBegin
    \/ ShutdownAfterRPC
    \/ WaitGoroutine
    \/ SelectWaitDone
    \/ SelectCtxDone
    \/ CloseConn
    \/ ShutdownKillReap
    \/ ShutdownKillDrain
    \/ \E th \in Threads : CallSend(th)
    \/ \E th \in Threads : CallAwait(th)
    \/ \E th \in Threads : ProcRespond(th)
    \/ ProcExit
    \/ \E th \in Threads : CtxDone(th)
    \/ TimerFire
    \/ Tick

SpecClient == InitExtension /\ [][NextClient]_vars

\* what the Go scheduler and the runtime guarantee: a goroutine that can
\* take its next step takes it, a goroutine waiting in Lock gets the mutex
\* if it is released again and again, timers fire and time passes. Nothing
\* is guaranteed of the subprocess, of the contexts of the callers, or of
\* whether Execute and Shutdown are called at all
ClientFairness ==
    /\ WF_vars(StartProcess)
    /\ WF_vars(StartDial)
    /\ WF_vars(StartReturn)
    /\ \A c \in Callers : WF_vars(ExecuteReturn(c))
    /\ WF_vars(ShutdownAfterRPC)
    /\ WF_vars(WaitGoroutine)
    /\ WF_vars(SelectWaitDone \/ SelectCtxDone)
    /\ SF_vars(CloseConn)
    /\ WF_vars(ShutdownKillReap)
    /\ WF_vars(ShutdownKillDrain)
    /\ \A th \in Threads : SF_vars(CallSend(th))
    /\ \A th \in Threads : WF_vars(CallAwait(th))
    /\ WF_vars(TimerFire)
    /\ WF_vars(Tick)

\* the extension client under the scheduling of the Go runtime
SpecClientFair == SpecClient /\ ClientFairness

(***************************************************************************)
(* The extension manager: Register, Get and ShutdownAll of the manager of  *)
(* pkg/extension/client, and the steps that call Get.                      *)
(***************************************************************************)
\* a mutant of Memoized: Get does not remember the instance of an alias
Forgotten(a) == "unstarted"

\* the instance Get finds for an alias: the one an earlier Get made
Memoized(a) == inst[a]

\* what client.Start returns to Get: nil or an error
StartOutcomes == {"ok", "err"}

\* what client.Shutdown returns to ShutdownAll: nil or an error
ShutdownOutcomes == {"ok", "err"}

\* the parser of an extension step: ext, err := manager.Get(ctx, alias)
ParserGet(g, a) ==
    /\ gpc[g] = "idle"
    /\ sd = "idle"
    /\ gpc' = [gpc EXCEPT ![g] = "parse"]
    /\ gs' = [gs EXCEPT ![g] = "enter"]
    /\ gal' = [gal EXCEPT ![g] = a]
    /\ UNCHANGED <<runnerVars, clientVars, selectVars, stepVars, registered, inst,
                   starts, ret, sd, sdTodo, sdRes, sdRet>>

\* the parser has its client: it returns the extensionStep, or the error
\* "failed to get extension"
ParserReturn(g) ==
    /\ gpc[g] = "parse"
    /\ gs[g] = "done"
    /\ gpc' = [gpc EXCEPT ![g] = IF ret[g].err = "" THEN "parsed" ELSE "idle"]
    /\ gs' = [gs EXCEPT ![g] = "none"]
    /\ gal' = [gal EXCEPT ![g] = IF ret[g].err = "" THEN @ ELSE NoAlias]
    /\ ret' = [ret EXCEPT ![g] = NoInstance]
    /\ UNCHANGED <<runnerVars, clientVars, selectVars, stepVars, registered, inst,
                   starts, sd, sdTodo, sdRes, sdRet>>

\* extensionStep.Execute: ext, err := manager.Get(ctx, r.alias), for the
\* alias the step was parsed with
ExecuteGet(g) ==
    /\ gpc[g] = "parsed"
    /\ gpc' = [gpc EXCEPT ![g] = "execute"]
    /\ gs' = [gs EXCEPT ![g] = "enter"]
    /\ UNCHANGED <<runnerVars, clientVars, selectVars, stepVars, registered, inst,
                   starts, gal, ret, sd, sdTodo, sdRes, sdRet>>

\* extensionStep.Execute returns, after ext.Execute or with the error of Get
StepReturn(g) ==
    /\ gpc[g] = "execute"
    /\ gs[g] = "done"
    /\ gpc' = [gpc EXCEPT ![g] = "idle"]
    /\ gs' = [gs EXCEPT ![g] = "none"]
    /\ gal' = [gal EXCEPT ![g] = NoAlias]
    /\ ret' = [ret EXCEPT ![g] = NoInstance]
    /\ UNCHANGED <<runnerVars, clientVars, selectVars, stepVars, registered, inst,
                   starts, sd, sdTodo, sdRes, sdRet>>

\* Get returns instance number n of alias a, or an error, to worker g
GetReturns(g, a, n, e) ==
    /\ ret' = [ret EXCEPT ![g] = [alias |-> a, serial |-> n, err |-> e]]
    /\ gs' = [gs EXCEPT ![g] = "done"]

\* Get(ctx, alias) looks the alias up: an unknown alias is an error, the
\* first call for an alias constructs its client and starts it, a call
\* that finds a start under way waits for it, a later call gets what the
\* first call made
GetEnter(g) ==
    /\ gs[g] = "enter"
    /\ LET a == gal[g]
       IN IF a \notin registered
          THEN /\ GetReturns(g, a, 0, "not registered")
               /\ UNCHANGED <<inst, starts>>
          ELSE CASE Memoized(a) = "unstarted" ->
                      /\ inst' = [inst EXCEPT ![a] = "starting"]
                      /\ starts' = [starts EXCEPT ![a] = @ + 1]
                      /\ gs' = [gs EXCEPT ![g] = "start"]
                      /\ UNCHANGED ret
                 [] Memoized(a) = "ready" ->
                      /\ GetReturns(g, a, starts[a], "")
                      /\ UNCHANGED <<inst, starts>>
                 [] Memoized(a) = "failed" ->
                      /\ GetReturns(g, a, starts[a], "failed to start")
                      /\ UNCHANGED <<inst, starts>>
                 [] OTHER -> FALSE
    /\ UNCHANGED <<runnerVars, clientVars, selectVars, stepVars, registered, gpc, gal,
                   sd, sdTodo, sdRes, sdRet>>

\* the client.Start that Get called has returned
GetStart(g) ==
    /\ gs[g] = "start"
    /\ \E o \in StartOutcomes :
          IF o = "ok"
          THEN /\ inst' = [inst EXCEPT ![gal[g]] = "ready"]
               /\ GetReturns(g, gal[g], starts[gal[g]], "")
          ELSE /\ inst' = [inst EXCEPT ![gal[g]] = "failed"]
               /\ GetReturns(g, gal[g], starts[gal[g]], "failed to start")
    /\ UNCHANGED <<runnerVars, clientVars, selectVars, stepVars, registered, starts,
                   gpc, gal, sd, sdTodo, sdRes, sdRet>>

\* defer manager.ShutdownAll(ctx) runs when RunWithProgress returns: every
\* task is over
ShutdownAllBegin ==
    /\ sd = "idle"
    /\ \A g \in Getters : gpc[g] = "idle"
    /\ sd' = "running"
    /\ sdTodo' = registered
    /\ UNCHANGED <<runnerVars, clientVars, selectVars, stepVars, registered, inst,
                   starts, gpc, gs, gal, ret, sdRes, sdRet>>

\* a mutant of AfterShutdownError: ShutdownAll gives up at the first error
AfterShutdownErrorStop(todo) == {}

\* what ShutdownAll has left to visit after a Shutdown returned an error
AfterShutdownError(todo) == todo

\* the instances ShutdownAll calls Shutdown on: those that were started
ShutdownTarget(a) == inst[a] = "ready"

\* ShutdownAll visits one alias: a started instance is shut down and its
\* error kept, an alias that was never started or whose start failed is
\* passed over. Shutdown on a client that is not started dereferences its
\* nil connection
ShutdownOne(a) ==
    /\ sd = "running"
    /\ a \in sdTodo
    /\ IF ShutdownTarget(a)
       THEN IF inst[a] = "ready"
            THEN \E o \in ShutdownOutcomes :
                    /\ inst' = [inst EXCEPT ![a] = "stopped"]
                    /\ sdRes' = [sdRes EXCEPT ![a] = o]
                    /\ sdTodo' = IF o = "err"
                                 THEN AfterShutdownError(sdTodo \ {a})
                                 ELSE sdTodo \ {a}
                    /\ UNCHANGED sd
            ELSE /\ sd' = "panic"
                 /\ UNCHANGED <<inst, sdRes, sdTodo>>
       ELSE /\ sdTodo' = sdTodo \ {a}
            /\ UNCHANGED <<inst, sdRes, sd>>
    /\ UNCHANGED <<runnerVars, clientVars, selectVars, stepVars, registered, starts,
                   gpc, gs, gal, ret, sdRet>>

\* ShutdownAll returns the errors it collected, joined
ShutdownAllReturn ==
    /\ sd = "running"
    /\ sdTodo = {}
    /\ sd' = "done"
    /\ sdRet' = {a \in Aliases : sdRes[a] = "err"}
    /\ UNCHANGED <<runnerVars, clientVars, selectVars, stepVars, registered, inst,
                   starts, gpc, gs, gal, ret, sdTodo, sdRes>>

\* an extension manager after Register was called for the extensions of the
\* eval configuration
InitManager ==
    /\ parallelism = NewRunnerWithParallelism(NGetters)
    /\ cfg = [t \in Tasks |-> OneStepTaskConfig]
    /\ taskCount = NTasks
    /\ InitRunner
    /\ InitClient
    /\ registered \in SUBSET Aliases
    /\ InitManagerIdle
    /\ taskPattern = <<>>
    /\ labelSelector = EmptyMap
    /\ InitSelectIdle
    /\ InitStepsIdle

NextManager ==
    \/ \E g \in Getters, a \in Aliases : ParserGet(g, a)
    \/ \E g \in Getters : ParserReturn(g)
    \/ \E g \in Getters : ExecuteGet(g)
    \/ \E g \in Getters : StepReturn(g)
    \/ \E g \in Getters : GetEnter(g)
    \/ \E g \in Getters : GetStart(g)
    \/ ShutdownAllBegin
    \/ \E a \in Aliases : ShutdownOne(a)
    \/ ShutdownAllReturn

SpecManager == InitManager /\ [][NextManager]_vars

(***************************************************************************)
(* Task selection: the pattern of RunWithProgress and collectTaskConfigs.  *)
(***************************************************************************)
\* the characters of task names
Chars == {"a", "b"}

\* the atoms of a task pattern: a literal character, or the dot
Atoms == Chars \cup {"."}

\* the sequences over S of length at most n
SeqsUpTo(S, n) == UNION {[1..k -> S] : k \in 0..n}

\* the names a task file can carry; metadata.name is not validated and may
\* be empty
Names == SeqsUpTo(Chars, MaxName)

\* the patterns a caller can pass, the empty one included
Patterns == SeqsUpTo(Atoms, MaxName)

\* the keys and values of labels
LabelKeys == {"suite", "tier"}
LabelValues == {"k8s", "pro"}

\* the map[string]string values over the label keys, nil or empty included
LabelMaps ==
    {m \in SUBSET (LabelKeys \X LabelValues) :
        \A p, q \in m : p[1] = q[1] => p = q}

\* the task files a glob or a path can yield
TaskFiles == {TaskFile(n, l) : n \in Names, l \in LabelMaps}

\* a mutant of EffectivePattern: the pattern is compiled as given
EffectivePatternAsGiven(p) == p

\* if taskPattern == "" { taskPattern = "." }
EffectivePattern(p) == IF p = <<>> THEN <<".">> ELSE p

\* an atom of a regular expression matches a character: the dot matches any
\* character but a newline, which names do not hold
AtomMatches(at, ch) == at = "." \/ at = ch

\* the expression matches the name at position i
MatchesAt(rx, name, i) ==
    /\ i + Len(rx) - 1 <= Len(name)
    /\ \A k \in 1..Len(rx) : AtomMatches(rx[k], name[i + k - 1])

\* rx.MatchString(name): an unanchored match, anywhere in the name
MatchString(rx, name) ==
    \E i \in 1..(Len(name) + 1) : MatchesAt(rx, name, i)

\* matchesLabelSelector(labels, selector): every pair of the selector is a
\* pair of the labels
matchesLabelSelector(labels, selector) == \A kv \in selector : kv \in labels

\* collectTaskConfigs on a task set of one path: the file is loaded, dropped
\* unless its name matches the pattern and its labels the selector, and
\* appended to taskConfigs otherwise
CollectTask(f) ==
    /\ found' = <<f>>
    /\ taskConfigs' =
          IF ~MatchString(EffectivePattern(taskPattern), f.name)
          THEN <<>>
          ELSE IF ~matchesLabelSelector(f.labels, labelSelector)
               THEN <<>>
               ELSE <<f>>
    /\ UNCHANGED <<runnerVars, clientVars, managerVars, stepVars, taskPattern,
                   labelSelector>>

\* a run with any pattern over a task set with any label selector
InitSelect ==
    /\ parallelism = NewRunnerWithParallelism(1)
    /\ cfg = [t \in Tasks |-> OneStepTaskConfig]
    /\ taskCount = NTasks
    /\ InitRunner
    /\ InitClient
    /\ registered = {}
    /\ InitManagerIdle
    /\ taskPattern \in Patterns
    /\ labelSelector \in LabelMaps
    /\ InitSelectIdle
    /\ InitStepsIdle

NextSelect == \E f \in TaskFiles : CollectTask(f)

SpecSelect == InitSelect /\ [][NextSelect]_vars

(***************************************************************************)
(* Task discovery: task.FromFile on every path of a task set, and what     *)
(* collectTaskConfigs and RunWithProgress make of its error.               *)
(***************************************************************************)
\* util.ErrWrongKind
ErrWrongKind == "wrong kind"

\* task.KindTask
KindTask == "Task"

\* the apiVersion values a file can carry: none, the two known ones as
\* v1alpha2 and the default, and an unknown one
APIVersions == {"", "mcpchecker/v1alpha2", "mcpchecker/v9"}

\* TypeMeta.GetAPIVersion
GetAPIVersion(f) ==
    IF f.apiVersion = "" THEN "mcpchecker/v1alpha1" ELSE f.apiVersion

\* a candidate file of a task set: whether it can be read and parsed, its
\* TypeMeta, its v1alpha1 steps field, and the metadata the filters look at;
\* nothing is known of a file that cannot be read or parsed
CandidateFiles ==
    {f \in [data : {"unreadable", "garbled", "yaml"},
            apiVersion : APIVersions,
            kind : {KindTask, "Eval"},
            steps : {"none", "valid", "invalid"},
            name : {<<"a">>, <<"b">>},
            labels : {EmptyMap}] :
        /\ f.data # "yaml" =>
              /\ f.apiVersion = ""
              /\ f.kind = KindTask
              /\ f.steps = "none"
              /\ f.name = <<"a">>
        /\ GetAPIVersion(f) # "mcpchecker/v1alpha1" => f.steps = "none"}

\* util.ValidateAPIVersion
ValidateAPIVersion(version) ==
    IF version \in {"", "mcpchecker/v1alpha1", "mcpchecker/v1alpha2"}
    THEN NoError
    ELSE <<"unknown apiVersion">>

\* TypeMeta.Validate: errors.Join of the apiVersion error and of the
\* wrapped ErrWrongKind
Validate(f, expectedKind) ==
    ValidateAPIVersion(f.apiVersion)
       \o (IF f.kind # expectedKind THEN <<ErrWrongKind>> ELSE NoError)

\* task.Read after yaml.Unmarshal succeeded
Read(f) ==
    IF Validate(f, KindTask) # NoError THEN Validate(f, KindTask)
    ELSE IF GetAPIVersion(f) = "mcpchecker/v1alpha1" /\ f.steps = "none"
         THEN <<"v1alpha1 requires steps field">>
    ELSE IF GetAPIVersion(f) = "mcpchecker/v1alpha1" /\ f.steps = "invalid"
         THEN <<"failed to convert v1alpha1 format">>
    ELSE NoError

\* the error of task.FromFile: os.ReadFile, yaml.Unmarshal, then Read
FromFile(f) ==
    IF f.data = "unreadable" THEN <<"failed to read file">>
    ELSE IF f.data = "garbled" THEN <<"yaml">>
    ELSE Read(f)

\* a mutant of IsWrongKind: no error is taken for a file of another kind
IsWrongKindNever(err) == FALSE

\* errors.Is(err, util.ErrWrongKind): the joined error holds ErrWrongKind
IsWrongKind(err) == \E i \in 1..Len(err) : err[i] = ErrWrongKind

\* the two filters of collectTaskConfigs on a loaded task
PassesFilters(f) ==
    /\ MatchString(EffectivePattern(taskPattern), f.name)
    /\ matchesLabelSelector(f.labels, labelSelector)

\* one iteration of the loop over the paths: the file is loaded; a file of
\* another kind is skipped, any other error makes collectTaskConfigs and
\* RunWithProgress return it, and a loaded task that passes the filters is
\* appended
ReadCandidate(f) ==
    /\ rpc = "config"
    /\ Len(found) < NTasks
    /\ found' = Append(found, f)
    /\ IF FromFile(f) = NoError
       THEN /\ taskConfigs' =
                  IF PassesFilters(f) THEN Append(taskConfigs, f)
                  ELSE taskConfigs
            /\ UNCHANGED <<rpc, runErr, mcpManager, extManager>>
       ELSE IF IsWrongKind(FromFile(f))
       THEN UNCHANGED <<taskConfigs, rpc, runErr, mcpManager, extManager>>
       ELSE /\ taskConfigs' = <<>>
            /\ runErr' = <<<<"failed to load task">> \o FromFile(f)>>
            /\ mcpManager' = RunDeferred(ManagersAt("task configs").mcp)
            /\ extManager' = RunDeferred(ManagersAt("task configs").ext)
            /\ rpc' = "returned"
    /\ UNCHANGED <<clientVars, managerVars, stepVars, taskPattern, labelSelector,
                   extUp, parallelism, cfg, taskCount, stepOutputs,
                   setupOutputs, stepInputs, tpc, stepIdx, out, result,
                   results, events, phaseLog, proxy>>

\* collectTaskConfigs returns taskConfigs, whose paths and load results are
\* gone with its frame, and RunWithProgress enters its loop over them
CollectReturn ==
    /\ rpc = "config"
    /\ found' = <<>>
    /\ taskCount' = Len(taskConfigs)
    /\ mcpManager' = Opened
    /\ extManager' = Opened
    /\ rpc' = "loop"
    /\ UNCHANGED <<clientVars, managerVars, stepVars, taskPattern, labelSelector,
                   taskConfigs, extUp, parallelism, cfg, stepOutputs,
                   setupOutputs, stepInputs, tpc, stepIdx, out, result,
                   results, runErr, events, phaseLog, proxy>>

\* a run over a task set whose files are yet to be read
InitDiscover ==
    /\ parallelism = NewRunnerWithParallelism(1)
    /\ cfg = [t \in Tasks |-> OneStepTaskConfig]
    /\ taskCount = 0
    /\ InitRunner
    /\ InitClient
    /\ registered = {}
    /\ InitManagerIdle
    /\ taskPattern = <<"a">>
    /\ labelSelector = EmptyMap
    /\ InitSelectIdle
    /\ InitStepsIdle

NextDiscover ==
    \/ EmitEvalStart
    \/ \E f \in CandidateFiles : ReadCandidate(f)
    \/ CollectReturn
    \/ \E t \in Tasks : StartTask(t)
    \/ \E t \in Tasks : SetupTaskResources(t)
    \/ \E t \in Tasks : SetupStep(t)
    \/ \E t \in Tasks : SetupReturn(t)
    \/ \E t \in Tasks : RunAgent(t)
    \/ \E t \in Tasks : VerifyStep(t)
    \/ \E t \in Tasks : VerifyReturn(t)
    \/ \E t \in Tasks : EvaluateAssertions(t)
    \/ \E t \in Tasks : CleanupStep(t)
    \/ \E t \in Tasks : CleanupReturn(t)
    \/ \E t \in Tasks : TaskReturn(t)
    \/ EmitEvalComplete

SpecDiscover == InitDiscover /\ [][NextDiscover]_vars

(***************************************************************************)
(* RandomResolver.Resolve, called by the goroutines Callers.               *)
(***************************************************************************)
\* the field names a template can ask for: the two supported and another
RandomFields == {"id", "port", "uuid"}

\* what generateRandomID(8) can return: strings of 8 lowercase
\* alphanumeric characters
RandomIDs == {"k3x9q2ab", "zz00aa11"}

\* what findAvailablePort can return
AvailablePorts == {"40001", "40002"}

\* val, err of the switch on fieldName: a value, or "" with an error
Generated(f) ==
    IF f = "id" THEN [val : RandomIDs, err : {""}]
                        \cup {[val |-> "", err |-> "failed to generate random id"]}
    ELSE [val : AvailablePorts, err : {""}]
            \cup {[val |-> "", err |-> "failed to find available port"]}

\* a mutant of MuFree: Resolve does not wait for the mutex
MuFreeAlways == TRUE

\* r.mu can be locked
MuFree == rmu = 0

\* r.mu.Lock() on entry of Resolve(fieldName)
ResolveLock(c, f) ==
    /\ rpos[c] = "idle"
    /\ MuFree
    /\ rmu' = c
    /\ rfield' = [rfield EXCEPT ![c] = f]
    /\ rpos' = [rpos EXCEPT ![c] = "lookup"]
    /\ UNCHANGED <<runnerVars, clientVars, managerVars, selectVars,
                   configVars, envVars,
                   templateVars, values, rret, returned>>

\* Resolve returns (val, nil) or ("", err), and the deferred r.mu.Unlock()
ResolveReturns(c, val, err) ==
    /\ rret' = [rret EXCEPT ![c] = IF err = "" THEN <<rfield[c], val>>
                                   ELSE NoValue]
    /\ returned' = IF err = "" THEN returned \cup {<<rfield[c], val>>}
                   ELSE returned
    /\ rmu' = IF rmu = c THEN 0 ELSE rmu
    /\ rfield' = [rfield EXCEPT ![c] = ""]
    /\ rpos' = [rpos EXCEPT ![c] = "idle"]

\* if val, ok := r.values[fieldName]; ok { return val, nil }, and the
\* default case of the switch
ResolveLookup(c) ==
    /\ rpos[c] = "lookup"
    /\ IF MapHas(values, rfield[c])
       THEN ResolveReturns(c, MapGet(values, rfield[c]), "")
       ELSE IF rfield[c] \notin {"id", "port"}
       THEN ResolveReturns(c, "", "unknown random field")
       ELSE /\ rpos' = [rpos EXCEPT ![c] = "generate"]
            /\ UNCHANGED <<rmu, rfield, rret, returned>>
    /\ UNCHANGED <<runnerVars, clientVars, managerVars, selectVars,
                   configVars, envVars,
                   templateVars, values>>

\* the switch on fieldName, then r.values[fieldName] = val; return val, nil
ResolveGenerate(c) ==
    /\ rpos[c] = "generate"
    /\ \E g \in Generated(rfield[c]) :
          /\ values' = IF g.err = "" THEN MapPut(values, rfield[c], g.val)
                       ELSE values
          /\ ResolveReturns(c, g.val, g.err)
    /\ UNCHANGED <<runnerVars, clientVars, managerVars, selectVars,
                   configVars, envVars,
                   templateVars>>

\* one RandomResolver and the goroutines that call Resolve on it
InitRandom ==
    /\ parallelism = NewRunnerWithParallelism(1)
    /\ cfg = [t \in Tasks |-> OneStepTaskConfig]
    /\ taskCount = NTasks
    /\ InitRunner
    /\ InitClient
    /\ registered = {}
    /\ InitManagerIdle
    /\ taskPattern = <<>>
    /\ labelSelector = EmptyMap
    /\ InitSelectIdle
    /\ InitConfigIdle
    /\ InitEnvIdle
    /\ InitTemplateIdle
    /\ InitResolver

NextRandom ==
    \/ \E c \in Callers, f \in RandomFields : ResolveLock(c, f)
    \/ \E c \in Callers : ResolveLookup(c)
    \/ \E c \in Callers : ResolveGenerate(c)

SpecRandom == InitRandom /\ [][NextRandom]_vars

(***************************************************************************)
(* StepOutputResolver.Resolve: a reference steps.<stepType>.<outputKey>.   *)
(***************************************************************************)
\* the characters of a field name: two letters and the dot
FieldChars == {"a", "b", "."}

\* the field names a template can hold after the source name
FieldNames == SeqsUpTo(FieldChars, MaxField)

\* the step types that can have recorded outputs: a plain one and a dotted
\* one, as in kubernetes.listContexts
RecordedTypes == {<<"a">>, <<"a", ".", "b">>}

\* the Outputs map a step can have recorded
RecordedOutputs ==
    {EmptyMap, {<<<<"a">>, "v1">>}, {<<<<"a">>, "v2">>, <<<<"b">>, "v3">>}}

\* the map[string]map[string]string values handed to NewStepOutputResolver
StepOutputMaps ==
    {m \in SUBSET (RecordedTypes \X RecordedOutputs) :
        \A p, q \in m : p[1] = q[1] => p = q}

\* a mutant of LastDot: the position of the first dot
FirstDot(f) ==
    IF \E i \in 1..Len(f) : f[i] = "."
    THEN CHOOSE i \in 1..Len(f) :
            f[i] = "." /\ \A j \in 1..(i - 1) : f[j] # "."
    ELSE 0

\* the loop from the end of fieldName: the position of the last dot, from 1,
\* or 0 when there is none (lastDot == -1)
LastDot(f) ==
    IF \E i \in 1..Len(f) : f[i] = "."
    THEN CHOOSE i \in 1..Len(f) :
            f[i] = "." /\ \A j \in (i + 1)..Len(f) : f[j] # "."
    ELSE 0

\* StepOutputResolver.Resolve(fieldName) on the outputs o: (value, error)
ResolveStepOutput(o, f) ==
    LET lastDot == LastDot(f)
        stepType == SubSeq(f, 1, lastDot - 1)
        outputKey == SubSeq(f, lastDot + 1, Len(f))
    IN IF lastDot = 0
       THEN [done |-> TRUE, val |-> "", err |-> "invalid field name"]
       ELSE IF ~MapHas(o, stepType)
       THEN [done |-> TRUE, val |-> "", err |-> "step type not found"]
       ELSE IF ~MapHas(MapGet(o, stepType), outputKey)
       THEN [done |-> TRUE, val |-> "", err |-> "output key not found"]
       ELSE [done |-> TRUE, val |-> MapGet(MapGet(o, stepType), outputKey),
             err |-> ""]

\* NewStepOutputResolver(outputs).Resolve(fieldName)
ResolveField ==
    /\ ~resolved.done
    /\ resolved' = ResolveStepOutput(refOutputs, fieldName)
    /\ UNCHANGED <<runnerVars, clientVars, managerVars, selectVars,
                   configVars, envVars,
                   resolverVars, fieldName, refOutputs, prompt, handed>>

\* any reference against any recorded outputs
InitResolve ==
    /\ parallelism = NewRunnerWithParallelism(1)
    /\ cfg = [t \in Tasks |-> OneStepTaskConfig]
    /\ taskCount = NTasks
    /\ InitRunner
    /\ InitClient
    /\ registered = {}
    /\ InitManagerIdle
    /\ taskPattern = <<>>
    /\ labelSelector = EmptyMap
    /\ InitSelectIdle
    /\ InitConfigIdle
    /\ InitEnvIdle
    /\ InitResolver
    /\ fieldName \in FieldNames
    /\ refOutputs \in StepOutputMaps
    /\ resolved = NotResolved
    /\ prompt = <<>>
    /\ handed = NotHanded

NextResolve == ResolveField

SpecResolve == InitResolve /\ [][NextResolve]_vars

(***************************************************************************)
(* taskRunner.resolvePromptTemplates and the head of RunAgent.             *)
(***************************************************************************)
\* a stretch of plain text of a prompt
Text(v) == [kind |-> "text", field |-> <<>>, val |-> v]

\* a reference {steps.<field>} of a prompt
StepsRef(f) == [kind |-> "steps", field |-> f, val |-> ""]

\* a reference to another source, as in {other.variable}
OtherRef == [kind |-> "other", field |-> <<"a">>, val |-> ""]

\* the fields the references of a prompt name: resolvable ones, one with a
\* missing key, one with a missing step type, one without a dot
PromptFields ==
    {<<"a", ".", "a">>, <<"a", ".", "b", ".", "b">>, <<"a", ".", "b">>,
     <<"b", ".", "a">>, <<"a">>}

\* the segments a prompt is made of
Segments == {Text("t"), OtherRef} \cup {StepsRef(f) : f \in PromptFields}

\* the prompts of a task
Prompts == SeqsUpTo(Segments, MaxSegments)

\* strings.Contains(prompt, "{steps.")
ContainsStepsRef(pr) == \E i \in 1..Len(pr) : pr[i].kind = "steps"

\* template.ParseTemplate with the one source "steps": a prompt whose
\* references all name that source is parsed; of one that names another
\* source the library may make an error or literal text
ParseOutcomes(pr) ==
    IF \E i \in 1..Len(pr) : pr[i].kind = "other" THEN {"ok", "err"}
    ELSE {"ok"}

\* a mutant of GetResult: what resolves is replaced, the rest is left
GetResultPartial(pr, o) ==
    [err |-> "",
     str |-> [i \in 1..Len(pr) |->
                IF pr[i].kind = "steps"
                   /\ ResolveStepOutput(o, pr[i].field).err = ""
                THEN Text(ResolveStepOutput(o, pr[i].field).val)
                ELSE pr[i]]]

\* builder.GetResult with the StepOutputResolver as the source "steps":
\* the error of a reference that does not resolve, or the prompt with every
\* reference replaced by its value
GetResult(pr, o) ==
    IF \E i \in 1..Len(pr) :
          pr[i].kind = "steps" /\ ResolveStepOutput(o, pr[i].field).err # ""
    THEN [err |-> "failed to resolve", str |-> <<>>]
    ELSE [err |-> "",
          str |-> [i \in 1..Len(pr) |->
                     IF pr[i].kind = "steps"
                     THEN Text(ResolveStepOutput(o, pr[i].field).val)
                     ELSE pr[i]]]

\* resolvePromptTemplates(prompt) with r.setupOutputs = o, when
\* ParseTemplate ends as parse
resolvePromptTemplates(pr, o, parse) ==
    IF o = EmptyMap \/ ~ContainsStepsRef(pr) THEN pr
    ELSE IF parse = "err" THEN pr
    ELSE IF GetResult(pr, o).err # "" THEN pr
    ELSE GetResult(pr, o).str

\* r.prompt = r.resolvePromptTemplates(r.prompt), then
\* agentRunner.RunTask(ctx, r.prompt): nothing before the call of the agent
\* returns an error
RunAgentPrompt ==
    /\ ~handed.done
    /\ \E parse \in ParseOutcomes(prompt) :
          handed' = [done |-> TRUE,
                     prompt |-> resolvePromptTemplates(prompt, refOutputs,
                                                       parse),
                     err |-> ""]
    /\ UNCHANGED <<runnerVars, clientVars, managerVars, selectVars,
                   configVars, envVars,
                   resolverVars, fieldName, refOutputs, resolved, prompt>>

\* any prompt after a Setup that left any outputs
InitPrompt ==
    /\ parallelism = NewRunnerWithParallelism(1)
    /\ cfg = [t \in Tasks |-> OneStepTaskConfig]
    /\ taskCount = NTasks
    /\ InitRunner
    /\ InitClient
    /\ registered = {}
    /\ InitManagerIdle
    /\ taskPattern = <<>>
    /\ labelSelector = EmptyMap
    /\ InitSelectIdle
    /\ InitConfigIdle
    /\ InitEnvIdle
    /\ InitResolver
    /\ fieldName = <<>>
    /\ resolved = NotResolved
    /\ refOutputs \in StepOutputMaps
    /\ prompt \in Prompts
    /\ handed = NotHanded

NextPrompt == RunAgentPrompt

SpecPrompt == InitPrompt /\ [][NextPrompt]_vars

(***************************************************************************)
(* StepConfig.MarshalJSON and StepConfig.UnmarshalJSON.                    *)
(***************************************************************************)
\* the ids of steps, the empty one included
StepIDs == {"", "a"}

\* json.Marshal of a string: the string between quotes
MarshalString(str) == "\"" \o str \o "\""

\* the raw JSON values of a payload: two strings, a number and an object
RawMessages == {MarshalString(i) : i \in StepIDs} \cup {"1", "{}"}

\* the raw value is a JSON string
IsString(raw) == \E i \in StepIDs : MarshalString(i) = raw

\* json.Unmarshal of a raw JSON string into a Go string
UnmarshalString(raw) == CHOOSE i \in StepIDs : MarshalString(i) = raw

\* the keys of a payload: a step type, a key that differs from id in case
\* only, and the key of the json tag of StepConfig.Config
PayloadKeys == {"http", "ID", "_"}

\* the map[string]json.RawMessage values over these keys
Payloads ==
    {m \in SUBSET (PayloadKeys \X RawMessages) :
        \A p, q \in m : p[1] = q[1] => p = q}

\* a mutant of MarshalJSON: the id is never written
MarshalJSONWithoutID(c) == [done |-> TRUE, obj |-> c.Config]

\* StepConfig.MarshalJSON: the object with the keys of Config, and the key
\* id when ID is not empty
MarshalJSON(c) ==
    [done |-> TRUE,
     obj |-> IF c.ID # "" THEN MapPut(c.Config, "id", MarshalString(c.ID))
             ELSE c.Config]

\* the keys of an object that json.Unmarshal takes for the field ID, whose
\* tag is id: the key id and, for want of an exact match, a key that
\* equals it but for case
KeysOfID == {"ID", "id"}

\* json.Unmarshal(data, tmp) fails: a key taken for ID holds no string, or
\* the key taken for Config, whose tag is _, holds no object
DecodeError(obj) ==
    \/ \E k \in KeysOfID : MapHas(obj, k) /\ ~IsString(MapGet(obj, k))
    \/ MapHas(obj, "_") /\ MapGet(obj, "_") # "{}"

\* the ID after json.Unmarshal(data, tmp) into a zero StepConfig: the keys
\* of a marshalled map come sorted, ID before id, and the last one wins
DecodedID(obj) ==
    IF MapHas(obj, "id") THEN UnmarshalString(MapGet(obj, "id"))
    ELSE IF MapHas(obj, "ID") THEN UnmarshalString(MapGet(obj, "ID"))
    ELSE ""

\* StepConfig.UnmarshalJSON on a marshalled object, into a zero StepConfig
UnmarshalJSON(obj) ==
    IF DecodeError(obj)
    THEN [done |-> TRUE, err |-> "json: cannot unmarshal",
          cfg |-> NewStepConfig("", EmptyMap)]
    ELSE [done |-> TRUE, err |-> "",
          cfg |-> NewStepConfig(DecodedID(obj), {p \in obj : p[1] # "id"})]

\* the StepConfig values UnmarshalJSON yields: the key id is stripped, and
\* the keys that json.Unmarshal took for a field held what the field takes;
\* the ID is that of the last of the keys taken for it, as in
\* {"ID":"a","id":""}
UnmarshalledConfigs ==
    {c \in {NewStepConfig(i, m) : i \in StepIDs, m \in Payloads} :
        ~DecodeError(c.Config)}

\* data, err := cfg.MarshalJSON()
MarshalConfig ==
    /\ ~data.done
    /\ data' = MarshalJSON(stepCfg)
    /\ UNCHANGED <<runnerVars, clientVars, managerVars, selectVars,
                   resolverVars, templateVars, envVars, stepCfg, decoded>>

\* err := new(StepConfig).UnmarshalJSON(data)
UnmarshalConfig ==
    /\ data.done
    /\ ~decoded.done
    /\ decoded' = UnmarshalJSON(data.obj)
    /\ UNCHANGED <<runnerVars, clientVars, managerVars, selectVars,
                   resolverVars, templateVars, envVars, stepCfg, data>>

\* any StepConfig that was unmarshalled
InitConfig ==
    /\ parallelism = NewRunnerWithParallelism(1)
    /\ cfg = [t \in Tasks |-> OneStepTaskConfig]
    /\ taskCount = NTasks
    /\ InitRunner
    /\ InitClient
    /\ registered = {}
    /\ InitManagerIdle
    /\ taskPattern = <<>>
    /\ labelSelector = EmptyMap
    /\ InitSelectIdle
    /\ InitResolver
    /\ InitTemplateIdle
    /\ InitEnvIdle
    /\ stepCfg \in UnmarshalledConfigs
    /\ data = NoData
    /\ decoded = NotDecoded

NextConfig == MarshalConfig \/ UnmarshalConfig

SpecConfig == InitConfig /\ [][NextConfig]_vars

(***************************************************************************)
(* HttpStep.Execute and the environment of the process; the executions     *)
(* Callers are steps of different tasks.                                   *)
(***************************************************************************)
\* the environments the process can have when a run starts
ProcessEnvs == {{<<"HOME", "h">>}, {<<"HOME", "h">>, <<"TOKEN", "y">>}}

\* the input.Env maps an execution can be given
EnvOverrides ==
    {EmptyMap, {<<"TOKEN", "x">>}, {<<"HOME", "w">>, <<"TOKEN", "z">>}}

\* for k, v := range input.Env { os.Setenv(k, v) }
Setenv(env, o) == {p \in env : ~MapHas(o, p[1])} \cup o

\* for k := range input.Env { _ = os.Unsetenv(k) }
Unsetenv(env, o) == {p \in env : ~MapHas(o, p[1])}

\* Execute is entered: the overrides are written to the environment of the
\* process and their removal is deferred
HttpSetenv(c) ==
    /\ hpos[c] = "idle"
    /\ hbefore' = [hbefore EXCEPT ![c] = environ]
    /\ environ' = Setenv(environ, henv[c])
    /\ hpos' = [hpos EXCEPT ![c] = "set"]
    /\ UNCHANGED <<runnerVars, clientVars, managerVars, selectVars,
                   resolverVars, templateVars, configVars, henv, hseen,
                   hafter>>

\* the templates are built and the request is made, under the environment
\* the process has by then
HttpRequest(c) ==
    /\ hpos[c] = "set"
    /\ hseen' = [hseen EXCEPT ![c] = environ]
    /\ hpos' = [hpos EXCEPT ![c] = "requested"]
    /\ UNCHANGED <<runnerVars, clientVars, managerVars, selectVars,
                   resolverVars, templateVars, configVars, environ, henv,
                   hbefore, hafter>>

\* Execute returns: the deferred function unsets every key of input.Env
HttpReturn(c) ==
    /\ hpos[c] = "requested"
    /\ environ' = Unsetenv(environ, henv[c])
    /\ hafter' = [hafter EXCEPT ![c] = Unsetenv(environ, henv[c])]
    /\ hpos' = [hpos EXCEPT ![c] = "done"]
    /\ UNCHANGED <<runnerVars, clientVars, managerVars, selectVars,
                   resolverVars, templateVars, configVars, henv, hbefore,
                   hseen>>

\* http steps with any overrides in a process with any environment
InitHttp ==
    /\ parallelism = NewRunnerWithParallelism(1)
    /\ cfg = [t \in Tasks |-> OneStepTaskConfig]
    /\ taskCount = NTasks
    /\ InitRunner
    /\ InitClient
    /\ registered = {}
    /\ InitManagerIdle
    /\ taskPattern = <<>>
    /\ labelSelector = EmptyMap
    /\ InitSelectIdle
    /\ InitResolver
    /\ InitTemplateIdle
    /\ InitConfigIdle
    /\ environ \in ProcessEnvs
    /\ hpos = [c \in Callers |-> "idle"]
    /\ henv \in [Callers -> EnvOverrides]
    /\ hbefore = [c \in Callers |-> EmptyMap]
    /\ hseen = [c \in Callers |-> EmptyMap]
    /\ hafter = [c \in Callers |-> EmptyMap]

NextHttp ==
    \/ \E c \in Callers : HttpSetenv(c)
    \/ \E c \in Callers : HttpRequest(c)
    \/ \E c \in Callers : HttpReturn(c)

SpecHttp == InitHttp /\ [][NextHttp]_vars

(***************************************************************************)
(* Observations used by the properties.                                    *)
(***************************************************************************)
\* the types of the events emitted for task t, in order
TaskEventTypes(t) ==
    LET mine == SelectSeq(events, LAMBDA e : e.task = t)
    IN [i \in 1..Len(mine) |-> mine[i].type]

HasEvent(type, t) == \E i \in 1..Len(events) : events[i] = Event(type, t)

\* the tasks that emitted TaskStart and neither TaskComplete nor TaskError
RunningTasks ==
    {t \in Tasks : /\ HasEvent("TaskStart", t)
                   /\ ~HasEvent("TaskComplete", t)
                   /\ ~HasEvent("TaskError", t)}

\* how often phase ph occurs in the phase log of task t
PhaseCount(t, ph) == Cardinality({i \in 1..Len(phaseLog[t]) : phaseLog[t][i] = ph})

PhaseRan(t, ph) == PhaseCount(t, ph) > 0

\* runTask is over for task t
TaskOver(t) == tpc[t] \in {"return", "returned"}

\* RunWithProgress returned after running its loop
RunCompleted == rpc = "returned" /\ HasEvent("EvalComplete", NoTask)

\* Setup was called for task t and returned without an error
SetupSucceeded(t) ==
    /\ ~result[t].SetupOutput.nil
    /\ result[t].SetupOutput.Error = ""

\* Setup was called for task t and returned the execution error of a step
SetupErrored(t) == PhaseRan(t, "Setup") /\ tpc[t] # "setup" /\ ~SetupSucceeded(t)

\* some phase of task t failed at run time
TaskFailed(t) == TaskOver(t) /\ ~result[t].TaskPassed

C3_FailureDoesNotAbortBatch ==
    /\ \A i \in 1..Len(runErr) : runErr[i] \in {<<e>> : e \in ConfigErrors}
    /\ \A t \in Tasks :
         TaskFailed(t) /\ rpc = "returned" =>
             /\ runErr = <<>>
             /\ \A u \in Tasks : HasEvent("TaskStart", u) /\ tpc[u] = "returned"

C3_Witness ==
    /\ rpc = "returned"
    /\ runErr = <<>>
    /\ \E t, u \in Tasks :
         /\ t < u
         /\ TaskFailed(t)
         /\ result[u].TaskPassed

(***************************************************************************)
(* C4: the slice Run returns holds exactly one EvalResult for every        *)
(* selected task, failed tasks included, and a result carries the output   *)
(* of every phase that was entered, with every step that was executed.     *)
(***************************************************************************)
PhaseOutputCaptured(t, ph, po) ==
    PhaseRan(t, ph) =>
        /\ ~po.nil
        /\ Len(po.Steps) = IF ph = "RunAgent" THEN 1 ELSE PhaseCount(t, ph) - 1

C4_OneResultPerTask ==
    /\ RunCompleted =>
         \A t \in Tasks : Cardinality({i \in 1..Len(results) : results[i] = t}) = 1
    /\ \A t \in Tasks :
         TaskOver(t) =>
             /\ PhaseOutputCaptured(t, "Setup", result[t].SetupOutput)
             /\ PhaseOutputCaptured(t, "RunAgent", result[t].AgentOutput)
             /\ PhaseOutputCaptured(t, "Verify", result[t].VerifyOutput)
             /\ PhaseOutputCaptured(t, "Cleanup", result[t].CleanupOutput)

C4_Witness ==
    /\ RunCompleted
    /\ \E t \in Tasks :
         /\ SetupErrored(t)
         /\ Len(result[t].SetupOutput.Steps) > 0
         /\ \E i \in 1..Len(results) : results[i] = t
    /\ \E u \in Tasks : result[u].AgentExecutionError

(***************************************************************************)
(* C5: if Setup succeeded for a task, Cleanup has been executed for it     *)
(* when runTask returns its result, whatever the later phases did.         *)
(***************************************************************************)
C5_CleanupAfterSuccessfulSetup ==
    \A t \in Tasks :
        TaskOver(t) /\ SetupSucceeded(t) =>
            /\ PhaseRan(t, "Cleanup")
            /\ ~result[t].CleanupOutput.nil

C5_Witness ==
    \E t, u \in Tasks :
        /\ tpc[t] = "returned" /\ tpc[u] = "returned"
        /\ result[t].AgentExecutionError
        /\ PhaseRan(t, "Cleanup")
        /\ result[u].TaskError = <<"verification failed", "verify step failed", "err">>
        /\ PhaseRan(u, "Cleanup")

(***************************************************************************)
(* C6 as stated: when Setup fails on a step, Cleanup still runs for that   *)
(* task.                                                                   *)
(***************************************************************************)
C6_Original_CleanupAfterFailedSetup ==
    \A t \in Tasks : TaskOver(t) /\ SetupErrored(t) => PhaseRan(t, "Cleanup")

(***************************************************************************)
(* C6 amended: when Setup fails on a step with an execution error, Cleanup *)
(* is not run for that task; setupTaskResources only closes the proxy      *)
(* server manager, and the result has no Cleanup output.                   *)
(***************************************************************************)
C6_NoCleanupAfterFailedSetup ==
    \A t \in Tasks :
        SetupErrored(t) =>
            /\ ~PhaseRan(t, "Cleanup")
            /\ tpc[t] # "cleanup"
            /\ result[t].CleanupOutput.nil
            /\ proxy[t] = "closed"

C6_Witness ==
    \E t \in Tasks :
        /\ tpc[t] = "returned"
        /\ SetupErrored(t)
        /\ result[t].SetupOutput.Error = "err"
        /\ proxy[t] = "closed"

(***************************************************************************)
(* C7 as stated: for every task, whatever its outcome, the events are      *)
(* TaskStart, TaskSetup, TaskRunning, TaskVerifying, TaskAssertions and    *)
(* then exactly one of TaskComplete or TaskError.                          *)
(***************************************************************************)
FullEventOrder ==
    <<"TaskStart", "TaskSetup", "TaskRunning", "TaskVerifying", "TaskAssertions">>

C7_Original_FullEventSequence ==
    \A t \in Tasks :
        tpc[t] = "returned" =>
            TaskEventTypes(t) \in {FullEventOrder \o <<"TaskComplete">>,
                                   FullEventOrder \o <<"TaskError">>}

(***************************************************************************)
(* C7 amended: the events of a task keep the order TaskStart, TaskSetup,   *)
(* TaskRunning, TaskVerifying, TaskAssertions, terminal event, but not all *)
(* are emitted for every outcome: a task whose setup failed emits only     *)
(* TaskStart, TaskSetup, TaskError; a task whose agent failed emits no     *)
(* TaskVerifying and ends with TaskComplete; every other task emits the    *)
(* full sequence ending with TaskComplete.                                 *)
(***************************************************************************)
EventsOnSetupFailure == <<"TaskStart", "TaskSetup", "TaskError">>

EventsOnAgentFailure ==
    <<"TaskStart", "TaskSetup", "TaskRunning", "TaskAssertions", "TaskComplete">>

EventsOtherwise == FullEventOrder \o <<"TaskComplete">>

IsPrefix(a, b) == Len(a) <= Len(b) /\ \A i \in 1..Len(a) : a[i] = b[i]

C7_EventSequencePerOutcome ==
    \A t \in Tasks :
        LET ev == TaskEventTypes(t) IN
        /\ \/ IsPrefix(ev, EventsOnSetupFailure)
           \/ IsPrefix(ev, EventsOnAgentFailure)
           \/ IsPrefix(ev, EventsOtherwise)
        /\ TaskOver(t) =>
             ev = IF ~SetupSucceeded(t) THEN EventsOnSetupFailure
                  ELSE IF result[t].AgentExecutionError THEN EventsOnAgentFailure
                  ELSE EventsOtherwise

C7_Witness ==
    \E t, u \in Tasks :
        /\ tpc[t] = "returned" /\ tpc[u] = "returned"
        /\ TaskEventTypes(t) = EventsOnSetupFailure
        /\ TaskEventTypes(u) = EventsOnAgentFailure

(***************************************************************************)
(* C8: EvalStart is emitted before the first event of any task, and        *)
(* EvalComplete after the last event of every task: EvalStart is the first *)
(* event, and once EvalComplete is emitted every started task has emitted  *)
(* its terminal event and nothing follows.                                 *)
(***************************************************************************)
C8_EvalEventsBracketTaskEvents ==
    /\ \A i \in 1..Len(events) :
         /\ (events[i].type = "EvalStart") <=> (i = 1)
         /\ events[i].type = "EvalComplete" => i = Len(events)
    /\ HasEvent("EvalComplete", NoTask) =>
         \A t \in Tasks :
             HasEvent("TaskStart", t) =>
                 HasEvent("TaskComplete", t) \/ HasEvent("TaskError", t)

C8_Witness ==
    /\ HasEvent("EvalComplete", NoTask)
    /\ \A t \in Tasks : HasEvent("TaskStart", t)
    /\ \E t \in Tasks : HasEvent("TaskError", t)

(***************************************************************************)
(* C9: within one task the phases occur in the order Setup, RunAgent,      *)
(* Verify, Cleanup and never overlap: no phase is entered and no step runs *)
(* before the phase executed before it has returned its output.            *)
(***************************************************************************)
PhaseRank(ph) ==
    CASE ph = "Setup" -> 1
      [] ph = "RunAgent" -> 2
      [] ph = "Verify" -> 3
      [] ph = "Cleanup" -> 4

C9_PhasesSequential ==
    \A t \in Tasks :
        /\ \A i, j \in 1..Len(phaseLog[t]) :
             i < j => PhaseRank(phaseLog[t][i]) <= PhaseRank(phaseLog[t][j])
        /\ PhaseRan(t, "RunAgent") => ~result[t].SetupOutput.nil
        /\ PhaseRan(t, "Verify") => ~result[t].AgentOutput.nil
        /\ PhaseRan(t, "Cleanup") =>
             /\ ~result[t].SetupOutput.nil
             /\ PhaseRan(t, "RunAgent")
             /\ PhaseRan(t, "Verify") => ~result[t].VerifyOutput.nil

C9_Witness ==
    /\ parallelism > 1
    /\ \E t \in Tasks :
         /\ tpc[t] = "returned"
         /\ \A ph \in {"Setup", "RunAgent", "Verify", "Cleanup"} : PhaseCount(t, ph) > 1 \/ ph = "RunAgent"
         /\ PhaseRan(t, "RunAgent")

(***************************************************************************)
(* C10: if Setup fails (a step returns an execution error), the agent is   *)
(* never run and no verify step is executed for that task, and the result  *)
(* has TaskPassed=false with the setup error as its TaskError.             *)
(***************************************************************************)
C10_SetupFailureSkipsAgentAndVerify ==
    \A t \in Tasks :
        SetupErrored(t) =>
            /\ ~PhaseRan(t, "RunAgent")
            /\ ~PhaseRan(t, "Verify")
            /\ tpc[t] \notin {"agent", "verify"}
            /\ result[t].AgentOutput.nil
            /\ result[t].VerifyOutput.nil
            /\ ~result[t].TaskPassed
            /\ ~result[t].AgentExecutionError
            /\ result[t].TaskError =
                   <<"failed to setup task", "setup step failed", "err">>

C10_Witness ==
    /\ rpc = "returned"
    /\ \E t \in Tasks :
         /\ SetupErrored(t)
         /\ ~result[t].TaskPassed
         /\ result[t].TaskError[1] = "failed to setup task"

(***************************************************************************)
(* C11: if the agent runner returns an error, Verify is not executed for   *)
(* that task, the RunAgent phase output is a single failed step of type    *)
(* "agent" whose outputs carry the raw error text, and the result has      *)
(* AgentExecutionError=true and TaskPassed=false.                          *)
(***************************************************************************)
\* RunAgent was called for task t and the agent runner returned an error
AgentErrored(t) == PhaseRan(t, "RunAgent") /\ ~result[t].AgentOutput.Success

C11_AgentErrorSkipsVerify ==
    \A t \in Tasks :
        AgentErrored(t) =>
            /\ ~PhaseRan(t, "Verify")
            /\ tpc[t] # "verify"
            /\ result[t].VerifyOutput.nil
            /\ ~HasEvent("TaskVerifying", t)
            /\ result[t].AgentOutput.Steps =
                   <<[Type |-> "agent", Success |-> FALSE,
                      Error |-> "failed to run agent: err",
                      Outputs |-> {<<"output", "err">>}]>>
            /\ result[t].TaskOutput = "err"
            /\ result[t].AgentExecutionError
            /\ ~result[t].TaskPassed

C11_Witness ==
    \E t \in Tasks :
        /\ tpc[t] = "returned"
        /\ AgentErrored(t)
        /\ result[t].AgentExecutionError
        /\ PhaseRan(t, "Cleanup")

(***************************************************************************)
(* C12: a result has TaskPassed=true if and only if the Verify phase was   *)
(* executed, returned without an execution error, and every verify step    *)
(* reported success.                                                       *)
(***************************************************************************)
\* Verify ran all its steps for task t, none returned an error and all
\* reported Success=true
VerifyPassed(t) ==
    LET po == result[t].VerifyOutput IN
    /\ PhaseRan(t, "Verify")
    /\ ~po.nil
    /\ po.Error = ""
    /\ Len(po.Steps) = Len(cfg[t].verify)
    /\ \A i \in 1..Len(po.Steps) : po.Steps[i].Success

C12_PassedIffVerifyPassed ==
    \A t \in Tasks : result[t].TaskPassed <=> VerifyPassed(t)

C12_Witness ==
    \E t, u \in Tasks :
        /\ tpc[t] = "returned" /\ tpc[u] = "returned"
        /\ result[t].TaskPassed
        /\ VerifyPassed(t)
        /\ ~result[u].TaskPassed
        /\ ~result[u].VerifyOutput.nil
        /\ result[u].VerifyOutput.Error = ""
        /\ ~result[u].VerifyOutput.Steps[1].Success

(***************************************************************************)
(* C13: a failure in Cleanup (a step execution error or a step reporting   *)
(* Success=false) is recorded in the Cleanup phase output of the result    *)
(* but no step of the cleanup closure changes the TaskPassed or the        *)
(* TaskError that the earlier phases determined.                           *)
(***************************************************************************)
C13_CleanupFailureKeepsVerdict ==
    [][\A t \in Tasks :
          tpc[t] = "cleanup" =>
              /\ result'[t].TaskPassed = result[t].TaskPassed
              /\ result'[t].TaskError = result[t].TaskError
              /\ tpc'[t] # "cleanup" =>
                    LET po == result'[t].CleanupOutput IN
                    /\ ~po.nil
                    /\ Len(po.Steps) = PhaseCount(t, "Cleanup")' - 1
                    /\ po.Success <=> \A i \in 1..Len(po.Steps) : po.Steps[i].Success
                    /\ (po.Error = "err") <=>
                          \E i \in 1..Len(po.Steps) : po.Steps[i].Error = "err"]_vars

C13_Witness ==
    \E t, u \in Tasks :
        /\ tpc[t] = "returned" /\ tpc[u] = "returned"
        /\ result[t].TaskPassed
        /\ result[t].TaskError = NoError
        /\ result[t].CleanupOutput.Error = "err"
        /\ ~result[u].CleanupOutput.nil
        /\ ~result[u].CleanupOutput.Success
        /\ result[u].CleanupOutput.Error = ""
        /\ result[u].TaskError = <<"one or more verification steps failed">>

(***************************************************************************)
(* Observations of the steps of a phase.                                   *)
(***************************************************************************)
StepPhases == {"Setup", "Verify", "Cleanup"}

\* the position of runTask while the phase function of ph runs
PhasePosition(ph) ==
    CASE ph = "Setup" -> "setup"
      [] ph = "Verify" -> "verify"
      [] ph = "Cleanup" -> "cleanup"

\* the step list of phase ph of task t
PhaseSteps(t, ph) ==
    CASE ph = "Setup" -> cfg[t].setup
      [] ph = "Verify" -> cfg[t].verify
      [] ph = "Cleanup" -> cfg[t].cleanup

\* phase ph of task t is between its first step and its return
PhaseInProgress(t, ph) == tpc[t] = PhasePosition(ph) /\ ~out[t].nil

\* the PhaseOutput of phase ph of task t: the one being built, or the one the
\* phase returned
PhaseOut(t, ph) ==
    IF PhaseInProgress(t, ph) THEN out[t]
    ELSE CASE ph = "Setup" -> result[t].SetupOutput
           [] ph = "Verify" -> result[t].VerifyOutput
           [] ph = "Cleanup" -> result[t].CleanupOutput

\* phase ph of task t has returned its output
PhaseReturned(t, ph) == ~PhaseInProgress(t, ph) /\ ~PhaseOut(t, ph).nil

\* the StepOutputs maps handed to the steps of phase ph of task t, in order
PhaseInputs(t, ph) ==
    LET mine == SelectSeq(stepInputs[t], LAMBDA e : e.phase = ph)
    IN [i \in 1..Len(mine) |-> mine[i].StepOutputs]

\* the steps among st that succeeded with a non-empty output set and type k
StoringSteps(st, k) ==
    {i \in 1..Len(st) : /\ st[i].Type = k
                        /\ st[i].Success
                        /\ st[i].Outputs # EmptyMap}

\* the map that holds, for every type name, the outputs of the most recent
\* step of st that succeeded with a non-empty output set, and else the entry
\* of seed
LatestOutputs(st, seed) ==
    LET names == {st[i].Type : i \in 1..Len(st)} \ {""}
        last(k) == CHOOSE i \in StoringSteps(st, k) :
                       \A j \in StoringSteps(st, k) : j <= i
    IN {p \in seed : StoringSteps(st, p[1]) = {}}
       \cup {<<k, st[last(k)].Outputs>> : k \in {x \in names : StoringSteps(st, x) # {}}}

\* what a phase starts from, as far as C14 goes: nothing, and for Cleanup
\* the map its first step was handed
PhaseBase(t, ph) ==
    IF ph = "Cleanup" /\ PhaseInputs(t, ph) # <<>>
    THEN PhaseInputs(t, ph)[1]
    ELSE EmptyMap

(***************************************************************************)
(* C14: the StepOutputs map handed to a step maps each step type name to   *)
(* the outputs of the most recent earlier step of that type in the same    *)
(* phase that succeeded with a non-empty output set (on top of the seed of *)
(* Cleanup); the outputs of failed steps and empty output sets are never   *)
(* stored and never replace an entry.                                      *)
(***************************************************************************)
C14_StepOutputsAreLatestSuccessful ==
    \A t \in Tasks : \A ph \in StepPhases :
        LET ins == PhaseInputs(t, ph)
            st == PhaseOut(t, ph).Steps
        IN /\ Len(ins) = Len(st)
           /\ \A i \in 1..Len(ins) :
                ins[i] = LatestOutputs(SubSeq(st, 1, i - 1), PhaseBase(t, ph))

C14_Witness ==
    \E t \in Tasks :
        LET st == result[t].SetupOutput.Steps
            ins == PhaseInputs(t, "Setup")
        IN /\ PhaseReturned(t, "Setup")
           /\ Len(st) >= 2
           /\ st[1].Success /\ st[1].Outputs = {<<"k", "a">>}
           /\ ~st[2].Success /\ st[2].Outputs = {<<"k", "b">>}
           /\ st[2].Type = st[1].Type
           /\ ins[2] = {<<st[1].Type, {<<"k", "a">>}>>}
           /\ setupOutputs[t] = ins[2]

(***************************************************************************)
(* C15: step outputs do not cross phases except into Cleanup: the first    *)
(* Verify step sees an empty StepOutputs map and no Verify step sees an    *)
(* entry that no earlier Verify step stored, while the first Cleanup step  *)
(* sees exactly the outputs Setup had accumulated when it finished.        *)
(***************************************************************************)
C15_OutputsCrossOnlyIntoCleanup ==
    \A t \in Tasks :
        LET vi == PhaseInputs(t, "Verify")
            vs == PhaseOut(t, "Verify").Steps
            ci == PhaseInputs(t, "Cleanup")
        IN /\ vi # <<>> => vi[1] = EmptyMap
           /\ \A i \in 1..Len(vi) : \A p \in vi[i] :
                \E j \in 1..(i - 1) :
                    /\ j <= Len(vs)
                    /\ vs[j].Type = p[1]
                    /\ vs[j].Outputs = p[2]
           /\ ci # <<>> =>
                /\ ci[1] = LatestOutputs(result[t].SetupOutput.Steps, EmptyMap)
                /\ ci[1] = setupOutputs[t]

C15_Witness ==
    \E t \in Tasks :
        /\ tpc[t] = "returned"
        /\ setupOutputs[t] # EmptyMap
        /\ PhaseInputs(t, "Verify") # <<>>
        /\ PhaseInputs(t, "Verify")[1] = EmptyMap
        /\ PhaseInputs(t, "Cleanup") # <<>>
        /\ PhaseInputs(t, "Cleanup")[1] = setupOutputs[t]

(***************************************************************************)
(* C16: when a step returns an execution error in Setup, Verify or         *)
(* Cleanup, no later step of that phase is executed and the phase output   *)
(* is marked failed with that error.                                       *)
(***************************************************************************)
C16_ExecutionErrorAbortsPhase ==
    \A t \in Tasks : \A ph \in StepPhases :
        LET po == PhaseOut(t, ph) IN
        \A i \in 1..Len(po.Steps) :
            po.Steps[i].Error = "err" =>
                /\ i = Len(po.Steps)
                /\ PhaseCount(t, ph) = i + 1
                /\ PhaseReturned(t, ph)
                /\ ~po.Success
                /\ po.Error = "err"

C16_Witness ==
    \E t \in Tasks :
        /\ tpc[t] = "returned"
        /\ Len(cfg[t].verify) > 1
        /\ result[t].VerifyOutput.Error = "err"
        /\ Len(result[t].VerifyOutput.Steps) = 1
        /\ Len(cfg[t].cleanup) > 1
        /\ result[t].CleanupOutput.Error = "err"
        /\ Len(result[t].CleanupOutput.Steps) = 1

(***************************************************************************)
(* C17: a step that reports Success=false without an execution error does *)
(* not stop its phase: every later step is still executed, and the Success *)
(* of the phase is the AND of the Success of all steps executed in it.     *)
(***************************************************************************)
C17_SoftFailureContinuesPhase ==
    \A t \in Tasks : \A ph \in StepPhases :
        LET po == PhaseOut(t, ph) IN
        ~po.nil =>
            /\ po.Success <=> \A i \in 1..Len(po.Steps) : po.Steps[i].Success
            /\ /\ PhaseReturned(t, ph)
               /\ \A i \in 1..Len(po.Steps) : po.Steps[i].Error # "err"
               => /\ Len(po.Steps) = Len(PhaseSteps(t, ph))
                  /\ PhaseCount(t, ph) = Len(PhaseSteps(t, ph)) + 1

C17_Witness ==
    \E t \in Tasks :
        LET po == result[t].SetupOutput IN
        /\ PhaseReturned(t, "Setup")
        /\ Len(po.Steps) = MaxSteps
        /\ po.Steps[1].Error = "soft"
        /\ po.Steps[MaxSteps].Success
        /\ ~po.Success
        /\ po.Error = ""

(***************************************************************************)
(* C18: if Start fails at any stage (pipes, spawn, connection, initialize  *)
(* handshake), a subprocess that was already started has been killed when  *)
(* Start returns its error: a failed Start leaves no extension process     *)
(* running.                                                                *)
(***************************************************************************)
C18_FailedStartLeavesNoProcess ==
    pc[Owner] = "startFailed" =>
        /\ startErr # NoError
        /\ proc.state # "running"
        /\ startErr[1] \in SpawnErrors => proc = NoProcess

C18_Witness ==
    /\ pc[Owner] = "startFailed"
    /\ startErr = <<"failed to initialize extension", "context done">>
    /\ proc = [state |-> "exited", status |-> "killed"]

(***************************************************************************)
(* C19: on one extension client at most one RPC is in flight at any time:  *)
(* the request of a call (Execute, initialize or shutdown) is sent only    *)
(* while no other call has a request sent and its response not yet         *)
(* awaited.                                                                *)
(***************************************************************************)
C19_AtMostOneRPCInFlight ==
    /\ Cardinality(inflight) <= 1
    /\ Cardinality(mux) <= 1
    /\ inflight \subseteq mux
    /\ \A th \in Threads : cs[th] = "await" <=> th \in inflight

C19_Witness ==
    \E c \in Callers :
        /\ inflight = {c}
        /\ pc[Owner] = "shutdownRPC"
        /\ cs[Owner] = "lock"
        /\ \E d \in Callers \ {c} : cs[d] = "lock"

(***************************************************************************)
(* C20 as stated: if the subprocess acknowledges the shutdown RPC and then *)
(* exits before the context of the caller is done, Shutdown returns nil.   *)
(***************************************************************************)
\* Shutdown has returned after the subprocess acknowledged the shutdown RPC
\* and exited by itself while the context of the caller was not done
GracefulShutdown ==
    /\ pc[Owner] = "stopped"
    /\ acked
    /\ ctx[Owner] = "live"
    /\ proc.status \in ExitStatuses

C20_Original_ShutdownReturnsNil == GracefulShutdown => shutdownErr = NoError

(***************************************************************************)
(* C20 amended: if the subprocess acknowledges the shutdown RPC and then   *)
(* exits before the context of the caller is done, Shutdown returns what   *)
(* the wait for the process returns: nil if it exited with status 0, and   *)
(* the exit error if it exited with another status.                        *)
(***************************************************************************)
C20_ShutdownReturnsWaitError ==
    GracefulShutdown =>
        /\ proc.state = "reaped"
        /\ conn = "nil"
        /\ proc.status = "zero" => shutdownErr = NoError
        /\ proc.status = "nonzero" => shutdownErr = <<"exit status 1">>

C20_Witness ==
    /\ GracefulShutdown
    /\ proc.status = "zero"
    /\ shutdownErr = NoError
    /\ closes = 1

\* the elements of a joined error
Joined(errs) == {errs[i] : i \in 1..Len(errs)}

\* Shutdown has returned by its branch case <-ctx.Done(): the goroutine's
\* result was drained from waitDone
CtxExpiredShutdown ==
    /\ pc[Owner] = "stopped"
    /\ acked
    /\ ~waitDone.ready

\* Shutdown has returned by its branch case err := <-waitDone
ExitedShutdown ==
    /\ pc[Owner] = "stopped"
    /\ acked
    /\ waitDone.ready

\* Shutdown has returned by the error branch of its shutdown RPC
RpcFailedShutdown ==
    /\ pc[Owner] = "stopped"
    /\ ~acked

(***************************************************************************)
(* C21: if the subprocess acknowledges the shutdown RPC but has not exited *)
(* when the context of the caller is done, Shutdown kills the process,     *)
(* drains the pending wait for it, and returns a joined error that holds   *)
(* the error of the context together with the kill error, if any.          *)
(***************************************************************************)
C21_CtxExpiryKillsAndDrains ==
    [][(pc[Owner] = "ctxKill" /\ pc'[Owner] = "stopped") =>
          /\ acked /\ ctx[Owner] = "done"
          /\ proc'.state = "reaped"
          /\ proc.state = "running" => proc'.status = "killed"
          /\ ~waitDone'.ready
          /\ Len(shutdownErr') >= 1 /\ shutdownErr'[1] = "context done"
          /\ KillError(proc) # "" => KillError(proc) \in Joined(shutdownErr')
          /\ CtxExpiredShutdown']_vars

C21_Witness ==
    /\ CtxExpiredShutdown
    /\ proc = [state |-> "reaped", status |-> "killed"]
    /\ shutdownErr = <<"context done", "signal: killed">>
    /\ conn = "nil"

(***************************************************************************)
(* C22: if the shutdown RPC fails, the 5-second timeout included, Shutdown *)
(* kills and reaps the process before it returns, and the joined error it  *)
(* returns holds the error of the RPC together with the kill error, if     *)
(* any.                                                                    *)
(***************************************************************************)
C22_RpcFailureKillsAndReaps ==
    [][(pc[Owner] = "failKill" /\ pc'[Owner] = "stopped") =>
          /\ callErr[Owner] # ""
          /\ proc'.state = "reaped"
          /\ proc.state = "running" => proc'.status = "killed"
          /\ Len(shutdownErr') >= 1 /\ shutdownErr'[1] = callErr[Owner]
          /\ KillError(proc) # "" => KillError(proc) \in Joined(shutdownErr')
          /\ RpcFailedShutdown']_vars

C22_Witness ==
    /\ RpcFailedShutdown
    /\ timer = "off"
    /\ ctx[Owner] = "live"
    /\ callErr[Owner] = "context done"
    /\ proc = [state |-> "reaped", status |-> "killed"]
    /\ shutdownErr = <<"context done">>

(***************************************************************************)
(* C25: whenever Shutdown has returned, by the graceful exit, by the       *)
(* failure of the RPC or by the expiry of the context, the subprocess has  *)
(* terminated and has been reaped and the JSON-RPC connection is closed;   *)
(* the connection is never closed more than once.                          *)
(***************************************************************************)
C25_ShutdownLeavesStopped ==
    /\ closes <= 1
    /\ pc[Owner] = "stopped" =>
          /\ proc.state = "reaped"
          /\ proc.status # "none"
          /\ conn = "nil"
          /\ closes = 1
          /\ ExitedShutdown \/ CtxExpiredShutdown \/ RpcFailedShutdown

C25_Witness ==
    /\ pc[Owner] = "stopped"
    /\ RpcFailedShutdown
    /\ proc.state = "reaped"
    /\ conn = "nil"
    /\ closes = 1
    /\ \E c \in Callers : pc[c] = "exec"

\* Shutdown awaits the response to its shutdown RPC
OwnerAwaitsShutdown == pc[Owner] = "shutdownRPC" /\ cs[Owner] = "await"

\* the await of the shutdown RPC returns the error of its context
ShutdownRpcCutShort ==
    /\ OwnerAwaitsShutdown
    /\ cs'[Owner] = "done"
    /\ callErr'[Owner] = "context done"

\* while Shutdown awaits the acknowledgement, time passes only up to 5
\* seconds after Shutdown was called
AckWaitBounded ==
    (OwnerAwaitsShutdown /\ elapsed' > elapsed) => elapsed' <= ShutdownTimeout

(***************************************************************************)
(* C23 as stated: Shutdown waits for the acknowledgement of the shutdown   *)
(* RPC for at most 5 seconds, and the state of the context of the caller   *)
(* does not change how long the RPC is given: the wait is cut short only   *)
(* by the 5-second timer.                                                  *)
(***************************************************************************)
C23_Original_CallerCtxIrrelevant ==
    [][/\ AckWaitBounded
       /\ ShutdownRpcCutShort => timer = "fired"]_vars

(***************************************************************************)
(* C23 amended: Shutdown waits for the acknowledgement of the shutdown RPC *)
(* for at most 5 seconds; the bound applies when the context of the caller *)
(* has no deadline, and the wait ends earlier when the context of the      *)
(* caller is done first.                                                   *)
(***************************************************************************)
C23_AckWaitAtMostFiveSeconds ==
    [][/\ AckWaitBounded
       /\ ShutdownRpcCutShort => timer = "fired" \/ ctx[Owner] = "done"
       /\ (OwnerAwaitsShutdown /\ timer = "fired") =>
             /\ elapsed >= ShutdownTimeout
             /\ "context done" \in AwaitOutcomes(Owner)
       /\ (OwnerAwaitsShutdown /\ ctx[Owner] = "done") =>
             "context done" \in AwaitOutcomes(Owner)]_vars

C23_Witness ==
    /\ pc[Owner] = "shutdownRPC"
    /\ cs[Owner] = "done"
    /\ callErr[Owner] = "context done"
    /\ ctx[Owner] = "live"
    /\ proc.state = "running"
    /\ timer = "fired"
    /\ elapsed = ShutdownTimeout

\* the positions of the owner inside Shutdown
ShutdownPositions ==
    {"shutdownRPC", "failClose", "failKill", "select", "exitClose",
     "ctxClose", "ctxKill"}

(***************************************************************************)
(* C24: no client operation blocks indefinitely past the cancellation of   *)
(* its context: once the context passed to Execute or to Shutdown is done, *)
(* the call returns (or the goroutine has panicked), whatever the          *)
(* subprocess does and whether or not another RPC is in flight.            *)
(***************************************************************************)
C24_ReturnsAfterCancellation ==
    /\ \A c \in Callers :
          (pc[c] = "exec" /\ ctx[c] = "done")
             ~> (pc[c] = "idle" \/ cs[c] = "panic")
    /\ (pc[Owner] \in ShutdownPositions /\ ctx[Owner] = "done")
          ~> (pc[Owner] = "stopped")

(***************************************************************************)
(* C26: for every registered alias at most one extension subprocess is     *)
(* ever started: repeated and concurrent Get calls for an alias all return *)
(* the same client instance, which was started exactly once.               *)
(***************************************************************************)
C26_StartOncePerAlias ==
    /\ \A a \in Aliases : starts[a] <= 1
    /\ \A a \in Aliases : a \notin registered => starts[a] = 0
    /\ \A g \in Getters :
          (gs[g] = "done" /\ ret[g].err = "") =>
             /\ ret[g].alias = gal[g]
             /\ ret[g].serial = 1
             /\ starts[gal[g]] = 1
             /\ inst[gal[g]] = "ready"

C26_Witness ==
    \E a \in registered :
       /\ \A g \in Getters :
             gpc[g] = "execute" /\ gs[g] = "done" /\ ret[g] = [alias |-> a, serial |-> 1, err |-> ""]
       /\ starts[a] = 1

(***************************************************************************)
(* C27: ShutdownAll attempts to shut down every started instance even when *)
(* the shutdown of an earlier one returned an error, returns all the       *)
(* shutdown errors together, and does not panic when some aliases were     *)
(* never started or failed to start.                                       *)
(***************************************************************************)
C27_ShutdownAllVisitsEveryInstance ==
    /\ sd # "panic"
    /\ sd = "done" =>
          /\ \A a \in Aliases :
                /\ inst[a] \notin {"ready", "starting"}
                /\ inst[a] = "stopped" <=> sdRes[a] # "none"
                /\ starts[a] = 1 /\ inst[a] # "failed" => sdRes[a] # "none"
          /\ sdRet = {a \in Aliases : sdRes[a] = "err"}

C27_Witness ==
    /\ sd = "done"
    /\ \E a, b, c \in Aliases :
          /\ a # b
          /\ sdRes[a] = "err" /\ sdRes[b] = "err"
          /\ sdRet = {a, b}
          /\ inst[c] \in {"unstarted", "failed"}

\* no task was started: no runTask call was made and no task event emitted
NoTaskStarted ==
    /\ \A t \in Tasks : tpc[t] = "idle"
    /\ \A i \in 1..Len(events) : events[i].task = NoTask

(***************************************************************************)
(* C28: on every return path of RunWithProgress after the MCP-client       *)
(* manager and the extension manager were created, each of them is closed  *)
(* or shut down exactly once before the return, and no extension           *)
(* subprocess started during the run is still running afterwards.          *)
(***************************************************************************)
C28_ManagersClosedOnceOnReturn ==
    /\ mcpManager.closes <= 1 /\ extManager.closes <= 1
    /\ rpc # "returned" =>
          mcpManager.state # "closed" /\ extManager.state # "closed"
    /\ rpc = "returned" =>
          /\ mcpManager.state # "open" /\ extManager.state # "open"
          /\ mcpManager.state = "closed" <=> mcpManager.closes = 1
          /\ extManager.state = "closed" <=> extManager.closes = 1
          /\ runErr = NoError =>
                mcpManager.state = "closed" /\ extManager.state = "closed"
          /\ (runErr # NoError /\ runErr[1][1] \in {"extension", "task configs"}) =>
                mcpManager.state = "closed" /\ extManager.state = "closed"
          /\ ~extUp

C28_Witness ==
    /\ rpc = "returned"
    /\ runErr = NoError
    /\ mcpManager = [state |-> "closed", closes |-> 1]
    /\ extManager = [state |-> "closed", closes |-> 1]
    /\ ~extUp
    /\ \E t \in Tasks : result[t].TaskError # NoError
    /\ \E t \in Tasks : result[t].TaskPassed

(***************************************************************************)
(* C29 as stated: when the configuration of a selected task, its step list *)
(* and its requirements included, is invalid, RunWithProgress returns an   *)
(* error and no task is started.                                           *)
(***************************************************************************)
C29_Original_InvalidTaskFailsRun ==
    \A t \in Tasks :
       result[t].TaskError = ResourceError("task runner") =>
          /\ runErr # NoError
          /\ \A u \in Tasks : ~HasEvent("TaskStart", u)

(***************************************************************************)
(* C29 amended: a task file that cannot be loaded makes RunWithProgress    *)
(* return an error before any task is started; a loaded task whose step    *)
(* list, prompt or requirements are rejected when its task runner is       *)
(* created fails alone, with TaskPassed false, its TaskError set and a     *)
(* TaskError event, while RunWithProgress returns no error and the other   *)
(* tasks run.                                                              *)
(***************************************************************************)
C29_InvalidTaskFailsAlone ==
    /\ runErr # NoError => rpc = "returned" /\ NoTaskStarted /\ results = <<>>
    /\ \A t \in Tasks :
          (HasEvent("TaskError", t) /\ phaseLog[t] = <<>>) =>
             /\ ~result[t].TaskPassed
             /\ \E o \in ResourceOutcomes \ {"ok"} :
                   result[t].TaskError = <<"failed to create " \o o>>
             /\ runErr = NoError
    /\ RunCompleted => Len(results) = taskCount /\ runErr = NoError

C29_Witness ==
    /\ RunCompleted
    /\ runErr = NoError
    /\ result[1].TaskError = <<"failed to create task runner">>
    /\ ~result[1].TaskPassed
    /\ HasEvent("TaskError", 1)
    /\ result[2].TaskPassed

\* the name matches the pattern as the claim reads it: unanchored, and an
\* empty pattern matches every name
NameMatchesPattern(name) ==
    taskPattern = <<>> \/ MatchString(taskPattern, name)

\* every pair of the selector is present with an equal value in the labels
LabelsSatisfySelector(labels) ==
    \A kv \in labelSelector : \E lv \in labels : lv[1] = kv[1] /\ lv[2] = kv[2]

(***************************************************************************)
(* C30: a discovered task is selected if and only if its name matches the  *)
(* unanchored regular expression, an empty pattern selecting every task,   *)
(* and every key/value pair of the label selector is present with an equal *)
(* value in its labels; a task without labels is selected only under an    *)
(* empty selector.                                                         *)
(***************************************************************************)
C30_SelectedIffNameAndLabelsMatch ==
    \A i \in 1..Len(found) :
       /\ taskConfigs = <<found[i]>> <=>
             /\ NameMatchesPattern(found[i].name)
             /\ LabelsSatisfySelector(found[i].labels)
       /\ (taskConfigs = <<found[i]>> /\ found[i].labels = EmptyMap) =>
             labelSelector = EmptyMap

(***************************************************************************)
(* The rest of C30, which holds: a task file whose name is not empty is    *)
(* selected if and only if its name matches the pattern, an empty pattern  *)
(* matching every such name, and its labels satisfy the selector.          *)
(***************************************************************************)
C30_SelectionOfNamedTasks ==
    \A i \in 1..Len(found) :
       found[i].name # <<>> =>
          /\ taskConfigs = <<found[i]>> <=>
                /\ NameMatchesPattern(found[i].name)
                /\ LabelsSatisfySelector(found[i].labels)
          /\ (taskConfigs = <<found[i]>> /\ found[i].labels = EmptyMap) =>
                labelSelector = EmptyMap

C30_NamedTaskSelected ==
    /\ taskPattern = <<>>
    /\ labelSelector = {<<"suite", "k8s">>}
    /\ found = <<TaskFile(<<"a">>, {<<"suite", "k8s">>, <<"tier", "pro">>})>>
    /\ taskConfigs = found

\* the file is of a different config kind than Task
OtherKind(f) == f.data = "yaml" /\ f.kind # KindTask

\* RunWithProgress has returned an error and no task was executed
ReturnedErrorBeforeTasks ==
    /\ rpc = "returned"
    /\ runErr # NoError
    /\ results = <<>>
    /\ \A t \in Tasks : tpc[t] = "idle" /\ phaseLog[t] = <<>>
    /\ \A i \in 1..Len(events) : events[i].type = "EvalStart"

C32_ResolveIsMemoized ==
    /\ \A p, q \in returned : p[1] = q[1] => p[2] = q[2]
    /\ \A p \in returned : MapHas(values, p[1]) /\ MapGet(values, p[1]) = p[2]

\* two goroutines got the same id, and a third call of that field is under way
C32_Witness ==
    /\ rret[1] # NoValue
    /\ rret[1] = rret[2]
    /\ rret[1][1] = "id"
    /\ \E f \in {"port"} : MapHas(values, f)
    /\ rpos[2] = "lookup" /\ rfield[2] = "id"

\* the field is stepType, a dot, and the key k, which holds no dot
SplitsInto(f, stepType, k) ==
    /\ f = stepType \o <<".">> \o k
    /\ \A i \in 1..Len(k) : k[i] # "."

\* the recorded outputs hold the value v under the step type and key that
\* the field names
Denotes(f, v) ==
    \E p \in refOutputs : \E kv \in p[2] :
       SplitsInto(f, p[1], kv[1]) /\ kv[2] = v

(***************************************************************************)
(* C33: resolving steps.<stepType>.<outputKey> splits the field on its     *)
(* last dot, so that the step type may hold dots, and returns              *)
(* StepOutputs[stepType][outputKey]; when the step type or the key is      *)
(* absent, or the field holds no dot, Resolve returns an error and no      *)
(* value.                                                                  *)
(***************************************************************************)
C33_ResolvesOnLastDotOrFails ==
    resolved.done =>
       IF \E v \in {"v1", "v2", "v3"} : Denotes(fieldName, v)
       THEN resolved.err = "" /\ Denotes(fieldName, resolved.val)
       ELSE resolved.err # "" /\ resolved.val = ""

\* a dotted step type was resolved
C33_Witness ==
    /\ resolved.done
    /\ fieldName = <<"a", ".", "b", ".", "b">>
    /\ resolved.val = "v3"

\* the prompt holds a steps reference that the outputs of Setup do not
\* resolve
Unresolvable(pr) ==
    \E i \in 1..Len(pr) :
       /\ pr[i].kind = "steps"
       /\ ~\E v \in {"v1", "v2", "v3"} : Denotes(pr[i].field, v)

(***************************************************************************)
(* C34: when the prompt holds a {steps.*} reference that the accumulated   *)
(* outputs of Setup do not resolve (a missing step type or key, or no      *)
(* outputs at all), RunAgent hands the prompt to the agent unchanged and   *)
(* returns no error for it.                                                *)
(***************************************************************************)
C34_UnresolvablePromptUnchanged ==
    (handed.done /\ Unresolvable(prompt)) =>
       handed.prompt = prompt /\ handed.err = ""

\* a prompt with a reference that resolves and one whose key is missing
C34_Witness ==
    /\ handed.done
    /\ prompt = <<StepsRef(<<"a", ".", "a">>), StepsRef(<<"a", ".", "b">>)>>
    /\ ~Unresolvable(<<prompt[1]>>)
    /\ handed.prompt = prompt

(***************************************************************************)
(* C35: for every StepConfig, marshalling and then unmarshalling gives an  *)
(* identical StepConfig: after unmarshalling the id is no key of the       *)
(* payload, and marshalling writes the key id exactly when the id is not   *)
(* empty.                                                                  *)
(***************************************************************************)
C35_MarshalUnmarshalRoundTrip ==
    /\ data.done => (MapHas(data.obj, "id") <=> stepCfg.ID # "")
    /\ decoded.done =>
          /\ decoded.err = ""
          /\ decoded.cfg = stepCfg
          /\ ~MapHas(decoded.cfg.Config, "id")

(***************************************************************************)
(* The part of C35 that holds: the round trip of a StepConfig whose        *)
(* payload has none of the keys that json.Unmarshal takes for a field of   *)
(* StepConfig.                                                             *)
(***************************************************************************)
C35_RoundTripOfPlainPayload ==
    (\A k \in KeysOfID \cup {"_"} : ~MapHas(stepCfg.Config, k)) =>
       C35_MarshalUnmarshalRoundTrip

C35_PlainPayloadDecoded ==
    /\ decoded.done
    /\ stepCfg = NewStepConfig("a", {<<"http", "{}">>})
    /\ decoded.cfg = stepCfg

\* the number of events of the type among the events emitted
CountEvents(type) ==
    Cardinality({i \in 1..Len(events) : events[i].type = type})

(***************************************************************************)
(* C36 as claimed: every run that emitted EvalStart has emitted exactly    *)
(* one EvalComplete when RunWithProgress has returned, also when it        *)
(* returns an error.                                                       *)
(***************************************************************************)
C36_Original_CompleteOnEveryReturn ==
    (rpc = "returned" /\ CountEvents("EvalStart") > 0) =>
       CountEvents("EvalComplete") = 1

(***************************************************************************)
(* C36: a run that emitted EvalStart and returns without an error has      *)
(* emitted exactly one EvalComplete, as its last event, when               *)
(* RunWithProgress returns; a run that returns an error (MCP               *)
(* configuration, agent spec, judge, extension registration or task        *)
(* loading failure) returns before its loop over the tasks and has emitted *)
(* no EvalComplete.                                                        *)
(***************************************************************************)
C36_CompleteUnlessErrorReturn ==
    /\ CountEvents("EvalComplete") > 0 => rpc = "returned"
    /\ rpc = "returned" =>
          IF runErr = NoError
          THEN /\ CountEvents("EvalStart") = 1
               /\ CountEvents("EvalComplete") = 1
               /\ events[Len(events)].type = "EvalComplete"
          ELSE /\ CountEvents("EvalComplete") = 0
               /\ NoTaskStarted

\* the run failed to load its tasks after EvalStart
C36_Witness ==
    /\ rpc = "returned"
    /\ runErr = <<<<"task configs">>>>
    /\ events = <<Event("EvalStart", NoTask)>>

(***************************************************************************)
(* C37: a task whose Setup phase output has Success = false, also when a   *)
(* setup step only reported Success = false without an execution error,    *)
(* never ends with TaskPassed = true.                                      *)
(***************************************************************************)
C37_FailedSetupNeverPasses ==
    \A t \in Tasks :
       (/\ tpc[t] = "returned"
        /\ ~result[t].SetupOutput.nil
        /\ ~result[t].SetupOutput.Success) => ~result[t].TaskPassed

(***************************************************************************)
(* C38: Execute or Shutdown invoked on a client that is not Ready returns  *)
(* an error and never uses a nil connection: a call that finds client.conn *)
(* nil when it has the mutex ends with an error returned to its caller.    *)
(***************************************************************************)
C38_CallWithoutConnReturnsError ==
    [][\A th \in Threads :
          (cs[th] = "lock" /\ conn = "nil" /\ cs'[th] # "lock") =>
             (cs'[th] = "done" /\ callErr'[th] # "")]_vars

(***************************************************************************)
(* C39: for every task, the MCP proxy server manager that was created for  *)
(* it is closed on every exit path of the task (proxy start failure, setup *)
(* failure, agent failure, verification failure and success): when runTask *)
(* has returned, a manager that was created is closed.                     *)
(***************************************************************************)
C39_ProxyClosedOnEveryExit ==
    \A t \in Tasks :
       (tpc[t] \in {"return", "returned"} /\ proxy[t] # "none") =>
          proxy[t] = "closed"

(***************************************************************************)
(* C40: the environment overrides of one http step execution are           *)
(* isolated: an execution makes its request under the environment it found *)
(* with its own overrides and nothing of another execution, and once it    *)
(* has returned every variable of the process environment has the value it *)
(* had before the step ran.                                                *)
(***************************************************************************)
C40_EnvOverridesIsolated ==
    \A c \in Callers :
       /\ hpos[c] \in {"requested", "done"} =>
             hseen[c] = Setenv(hbefore[c], henv[c])
       /\ hpos[c] = "done" => hafter[c] = hbefore[c]

====
